---- MODULE Spec2Model ----
(***************************************************************************)
(* Location ingestion of the cattle farm monitoring backend: the           *)
(* POST /gps handler, the animal_locations history table, the              *)
(* current_locations table and the gpsEmitter 'location' events.           *)
(*                                                                         *)
(* A handler is modelled as a process that takes one step per await: a     *)
(* query is sent, the datastore executes it, the handler resumes.          *)
(***************************************************************************)
EXTENDS Integers, Sequences, FiniteSets, TLC

(***************************************************************************)
(* Bounds                                                                  *)
(***************************************************************************)
\* number of POST /gps calls accepted in one behaviour
MaxCalls == 2
\* largest value of the server clock
MaxClock == 1
\* number of datastore and subscriber failures in one behaviour
MaxFaults == 1
\* number of updateRemoteConfig calls in a behaviour
MaxConfigs == 1
\* the latest time of the command queue, in hours
MaxTime == 2
\* number of polls of the device in a behaviour
MaxPolls == 1
\* number of alerts that devices report before the table is cleared
MaxAlerts == 1
\* number of virtual fences that are created
MaxFences == 1

(***************************************************************************)
(* JavaScript values, as integers so that values of different JavaScript   *)
(* types can be compared:                                                  *)
(*   Undef     a property that is absent from req.body                     *)
(*   Null      null                                                        *)
(*   NaN       NaN                                                         *)
(*   Num(n)    the number n, 0 <= n < 10000                                *)
(*   Str(n)    the string that spells n (a numeric string, or a timestamp  *)
(*             string for time n)                                          *)
(*   Date(n)   the Date object, or the DATETIME column value, for time n   *)
(***************************************************************************)
Undef == 0 - 1
Null == 0 - 2
NaN == 0 - 3
Num(n) == n
Str(n) == 10000 + n
Date(n) == 20000 + n

\* the JSON values true and false
JsTrue == 30000 + 1
JsFalse == 0 - 4

\* typeof x === 'number': true of NaN as well
IsNum(x) == x = NaN \/ (x >= 0 /\ x < 10000)
IsStr(x) == x >= 10000 /\ x < 20000
IsDate(x) == x >= 20000 /\ x < 30000

\* the time a Date or a timestamp string stands for
TimeOf(x) == IF IsDate(x) THEN x - 20000 ELSE x - 10000

\* JavaScript truthiness of a value: false of undefined, null, NaN and 0
Truthy(x) == x > 0

\* x == null in JavaScript: true of null and of undefined
LooseNull(x) == x \in {Undef, Null}

\* Number(x), which is also the conversion of an operand of *
Number(x) ==
    CASE x = Undef -> NaN
      [] x = Null -> Num(0)
      [] x = JsTrue -> Num(1)
      [] x = JsFalse -> Num(0)
      [] IsStr(x) -> Num(x - 10000)
      [] IsDate(x) -> Num(x - 20000)
      [] OTHER -> x

\* destructuring default "= null": applies to an absent property only
DefaultNull(x) == IF x = Undef THEN Null ELSE x

\* a || b
Or(a, b) == IF Truthy(a) THEN a ELSE b

(***************************************************************************)
(* Request bodies of POST /gps                                             *)
(***************************************************************************)
BodyFields ==
    {"update_id", "id", "latitude", "longitude", "animal_id", "collar_id",
     "altitude_meters", "accuracy_meters", "speed_kmh", "heading_degrees",
     "recorded_at", "battery_level", "signal_quality", "temperature_celsius"}

\* the optional telemetry of a report: all absent, or all present
NoTelemetry ==
    [altitude_meters |-> Undef, accuracy_meters |-> Undef, speed_kmh |-> Undef,
     heading_degrees |-> Undef, battery_level |-> Undef,
     signal_quality |-> Undef, temperature_celsius |-> Undef]

FullTelemetry ==
    [altitude_meters |-> Num(1500), accuracy_meters |-> Num(3), speed_kmh |-> Num(4),
     heading_degrees |-> Num(180), battery_level |-> Num(90),
     signal_quality |-> Num(2), temperature_celsius |-> Num(38)]

Body(uid, id, a, c, lat, lon, rec, tel) ==
    [update_id |-> uid, id |-> id, latitude |-> lat, longitude |-> lon,
     animal_id |-> a, collar_id |-> c, recorded_at |-> rec,
     altitude_meters |-> tel.altitude_meters,
     accuracy_meters |-> tel.accuracy_meters,
     speed_kmh |-> tel.speed_kmh,
     heading_degrees |-> tel.heading_degrees,
     battery_level |-> tel.battery_level,
     signal_quality |-> tel.signal_quality,
     temperature_celsius |-> tel.temperature_celsius]

NoBody == Body(Undef, Undef, Undef, Undef, Undef, Undef, Undef, NoTelemetry)

(***************************************************************************)
(* The handler's parameter lists                                           *)
(***************************************************************************)
\* const updateId = req.body.update_id || req.body.id || null
UpdateId(b) == Or(b.update_id, Or(b.id, Null))

\* recorded_at ? recorded_at : new Date()
RecordedAt(b, t) ==
    IF Truthy(DefaultNull(b.recorded_at)) THEN b.recorded_at ELSE Date(t)

\* params / updateParams: the twelve columns of an animal_locations row
HistoryParams(b, t) ==
    [animal_id |-> DefaultNull(b.animal_id),
     collar_id |-> DefaultNull(b.collar_id),
     latitude |-> Number(b.latitude),
     longitude |-> Number(b.longitude),
     altitude_meters |-> DefaultNull(b.altitude_meters),
     accuracy_meters |-> DefaultNull(b.accuracy_meters),
     speed_kmh |-> DefaultNull(b.speed_kmh),
     heading_degrees |-> DefaultNull(b.heading_degrees),
     recorded_at |-> RecordedAt(b, t),
     battery_level |-> DefaultNull(b.battery_level),
     signal_quality |-> DefaultNull(b.signal_quality),
     temperature_celsius |-> DefaultNull(b.temperature_celsius)]

\* upsertParams of the correction and of the attributed branch
UpsertParams(b, t) ==
    [animal_id |-> DefaultNull(b.animal_id),
     collar_id |-> DefaultNull(b.collar_id),
     latitude |-> Number(b.latitude),
     longitude |-> Number(b.longitude),
     recorded_at |-> RecordedAt(b, t),
     battery_level |-> DefaultNull(b.battery_level),
     signal_quality |-> DefaultNull(b.signal_quality),
     temperature_celsius |-> DefaultNull(b.temperature_celsius)]

\* RawUpsertParams with the reserved animal_id 0 replaced by the animal_id
\* of the body
RawUpsertParamsNoSentinel(b, t) ==
    [animal_id |-> DefaultNull(b.animal_id),
     collar_id |-> Null,
     latitude |-> Number(b.latitude),
     longitude |-> Number(b.longitude),
     recorded_at |-> Date(t)]

\* the parameters of the sentinel upsert: VALUES (0, NULL, ?, ?, ?)
RawUpsertParams(b, t) ==
    [animal_id |-> Num(0),
     collar_id |-> Null,
     latitude |-> Number(b.latitude),
     longitude |-> Number(b.longitude),
     recorded_at |-> Date(t)]

\* the object passed to gpsEmitter.emit('location', ...) after an upsert
\* with parameters up
LocationEvent(b, up) ==
    [animal_id |-> DefaultNull(b.animal_id),
     collar_id |-> DefaultNull(b.collar_id),
     latitude |-> Number(b.latitude),
     longitude |-> Number(b.longitude),
     recorded_at |-> up.recorded_at,
     battery_level |-> DefaultNull(b.battery_level),
     signal_quality |-> DefaultNull(b.signal_quality),
     temperature_celsius |-> DefaultNull(b.temperature_celsius)]

\* the object emitted for a raw gps point
RawLocationEvent(b, up) ==
    [animal_id |-> Num(0),
     collar_id |-> Null,
     latitude |-> Number(b.latitude),
     longitude |-> Number(b.longitude),
     recorded_at |-> up.recorded_at]

\* Branch with the coordinate check made after the identity check
BranchIdentityFirst(b) ==
    IF Truthy(Or(b.update_id, Or(b.id, Null))) THEN "correction"
    ELSE IF Truthy(DefaultNull(b.animal_id)) \/ Truthy(DefaultNull(b.collar_id))
         THEN "attributed"
    ELSE IF LooseNull(b.latitude) \/ LooseNull(b.longitude) THEN "invalid"
    ELSE "raw"

\* Branch with the missing-coordinates check ahead of the update_id test
BranchCoordinatesFirst(b) ==
    IF LooseNull(b.latitude) \/ LooseNull(b.longitude) THEN "invalid"
    ELSE IF Truthy(UpdateId(b)) THEN "correction"
    ELSE IF Truthy(DefaultNull(b.animal_id)) \/ Truthy(DefaultNull(b.collar_id))
         THEN "attributed"
    ELSE "raw"

\* which branch of the handler a body takes
Branch(b) ==
    IF Truthy(UpdateId(b)) THEN "correction"
    ELSE IF LooseNull(b.latitude) \/ LooseNull(b.longitude) THEN "invalid"
    ELSE IF Truthy(DefaultNull(b.animal_id)) \/ Truthy(DefaultNull(b.collar_id))
         THEN "attributed"
    ELSE "raw"

(***************************************************************************)
(* The datastore                                                           *)
(***************************************************************************)
\* a timestamp parameter as the DATETIME column stores it
ToDatetime(x) == IF IsStr(x) \/ IsDate(x) THEN Date(TimeOf(x)) ELSE x

\* the datastore cannot store NaN: a statement with a NaN parameter fails
HasNaN(p) == \E f \in DOMAIN p : p[f] = NaN

\* the outcomes of executeQuery for a statement with parameters p
Outcomes(p) == IF HasNaN(p) THEN {"fail", "throw"} ELSE {"ok", "fail", "throw"}

\* INSERT INTO animal_locations (...) VALUES (...): id is AUTO_INCREMENT
InsertHistory(tbl, p) ==
    Append(tbl, [p EXCEPT !.recorded_at = ToDatetime(p.recorded_at)]
                @@ [id |-> Len(tbl) + 1])

\* UpdateHistory writing a new row instead of changing the row named
UpdateHistoryInserts(tbl, p, updateId) ==
    Append(tbl, [p EXCEPT !.recorded_at = ToDatetime(p.recorded_at)]
                @@ [id |-> Len(tbl) + 1])

\* UpdateHistory without its WHERE clause: every row is changed
UpdateHistoryEveryRow(tbl, p, updateId) ==
    [i \in DOMAIN tbl |->
        [p EXCEPT !.recorded_at = ToDatetime(p.recorded_at)] @@ [id |-> tbl[i].id]]

\* UPDATE animal_locations SET <the twelve columns> WHERE id = ?
UpdateHistory(tbl, p, updateId) ==
    [i \in DOMAIN tbl |->
        IF tbl[i].id = Number(updateId)
        THEN [p EXCEPT !.recorded_at = ToDatetime(p.recorded_at)]
             @@ [id |-> tbl[i].id]
        ELSE tbl[i]]

\* the entity key of a current_locations row: the animal identity, or the
\* collar identity of a row that names no animal
DuplicateKey(row, p) ==
    IF p.animal_id = Null
    THEN row.animal_id = Null /\ row.collar_id = p.collar_id
    ELSE row.animal_id = p.animal_id

\* columns of current_locations an INSERT may leave out (they default to NULL)
CurrentDefaults ==
    [battery_level |-> Null, signal_quality |-> Null, temperature_celsius |-> Null]

\* Upsert as INSERT IGNORE: the record a key already has is kept as it is
UpsertKeepsExisting(tbl, p, cols) ==
    LET new == [p EXCEPT !.recorded_at = ToDatetime(p.recorded_at)] @@ CurrentDefaults
    IN IF \E i \in DOMAIN tbl : DuplicateKey(tbl[i], p)
       THEN tbl
       ELSE Append(tbl, new)

\* INSERT INTO current_locations (...) VALUES (...) ON DUPLICATE KEY UPDATE
\* <cols> = VALUES(<cols>), where cols are the columns the statement names
Upsert(tbl, p, cols) ==
    LET new == [p EXCEPT !.recorded_at = ToDatetime(p.recorded_at)] @@ CurrentDefaults
    IN IF \E i \in DOMAIN tbl : DuplicateKey(tbl[i], p)
       THEN [i \in DOMAIN tbl |->
               IF DuplicateKey(tbl[i], p)
               THEN [f \in DOMAIN tbl[i] |-> IF f \in cols THEN new[f] ELSE tbl[i][f]]
               ELSE tbl[i]]
       ELSE Append(tbl, new)

\* UpsertCols without the latitude
UpsertColsNoLatitude ==
    {"longitude", "recorded_at", "battery_level", "signal_quality",
     "temperature_celsius"}

\* the ON DUPLICATE KEY UPDATE list of the correction and attributed upserts
UpsertCols ==
    {"latitude", "longitude", "recorded_at", "battery_level", "signal_quality",
     "temperature_celsius"}

\* the ON DUPLICATE KEY UPDATE list of the sentinel upsert
RawUpsertCols == {"latitude", "longitude", "recorded_at"}

\* UpsertCurrent as a plain INSERT, without ON DUPLICATE KEY UPDATE
UpsertCurrentInsertOnly(tbl, p) ==
    Append(tbl, [p EXCEPT !.recorded_at = ToDatetime(p.recorded_at)])

UpsertCurrent(tbl, p) == Upsert(tbl, p, UpsertCols)

UpsertRaw(tbl, p) == Upsert(tbl, p, RawUpsertCols)

(***************************************************************************)
(* State                                                                   *)
(***************************************************************************)
VARIABLES
    animal_locations,   \* the history table: a sequence of rows, id = position
    current_locations,  \* the current table: a sequence of rows
    events,             \* the 'location' objects passed to gpsEmitter.emit, in order
    now,                \* the time the last new Date() returned
    calls,              \* number of POST /gps calls accepted so far
    faults,             \* number of failures that have happened so far
    pc,                 \* per handler: where the call stands
    req,                \* per handler: req.body of the call
    params,             \* per handler: params / updateParams of the history write
    upsertParams,       \* per handler: upsertParams of the current upsert
    hist,               \* per handler: outcome of the history write of the call
    ups,                \* per handler: outcome of the current upsert of the call
    emit,               \* per handler: outcome of gpsEmitter.emit of the call
    resp,               \* per handler: the response of the call
    pre,                \* per handler: the tables and events when the call began
    post,               \* per handler: current_locations right after the call's upsert
    prev,               \* per handler: body and outcomes of the handler's previous call
    upserted,           \* the upsert parameters of every upsert that succeeded
    device_commands,    \* the command queue table: a sequence of rows, id = position
    system_settings,    \* the columns of the one row of system_settings
    clock,              \* the time of the command queue, in hours
    cfg,                \* the updateRemoteConfig handler: where its call stands
    dev,                \* the polling device: its position, commands and outputs
    alerts,             \* the alerts table: its rows and its AUTO_INCREMENT
    device_controls,    \* the device_controls table: a sequence of rows
    virtual_fences,     \* the virtual_fences table: its rows and its AUTO_INCREMENT
    env,                \* process.env of the server
    web,                \* per client: its dashboard or device request being served
    posted              \* req.body.state of the last POST /device/control that succeeded

\* the state of telemetry ingest
gpsVars ==
    <<animal_locations, current_locations, events, now, calls, faults, pc, req,
      params, upsertParams, hist, ups, emit, resp, pre, post, prev, upserted>>

\* the state of command dispatch
cmdVars == <<device_commands, system_settings, clock, cfg, dev>>

\* the state of alerts, the device control flag and the virtual fences
admVars == <<alerts, device_controls, virtual_fences, env, web, posted>>

vars == <<gpsVars, cmdVars, admVars>>

\* the request handlers that may run at the same time
Handlers == {1, 2}

\* the clients of the dashboard and device routes whose requests may be
\* served at the same time, each with one request at a time
Clients == {1, 2}

NoParams == [none |-> Null]
NoResp == [status |-> 0, success |-> FALSE, message |-> ""]
Resp(st, ok, msg) == [status |-> st, success |-> ok, message |-> msg]
Snapshot == [al |-> animal_locations, cl |-> current_locations, ev |-> events]
NoPrev == [req |-> NoBody, hist |-> "none", ups |-> "none"]

\* the updateRemoteConfig handler before its first call
NoConfig ==
    [pc |-> "idle", calls |-> 0, req |-> [none |-> Null], now |-> 0,
     inserted |-> <<>>, resp |-> NoResp, pre |-> <<>>]

\* the device after setup(): both outputs LOW, nothing polled
NoDevice ==
    [pc |-> "idle", polls |-> 0, polledAt |-> 0, delivered |-> <<>>,
     commands |-> <<>>, sound |-> FALSE, lights |-> FALSE, last |-> 0,
     ack |-> [id |-> 0, was |-> "none", result |-> "none", changed |-> FALSE]]

\* system_settings before any update
NoSettings ==
    [default_sound_enabled |-> Null, default_lights_enabled |-> Null,
     sensor_threshold |-> Null, wifi_ssid |-> Null, wifi_password |-> Null]

\* the report an earlier run of the server may have ingested
SeedBody ==
    Body(Undef, Undef, Num(7), Num(5), Num(40), Num(10), Undef, NoTelemetry)

\* the alerts table when it was created
NoAlerts == [rows |-> <<>>, auto_increment |-> 1]

\* the virtual_fences table when it was created
NoFences == [rows |-> <<>>, auto_increment |-> 1]

\* no request of the client is being served
NoRequest ==
    [pc |-> "idle", op |-> "none", req |-> [none |-> Null], user |-> [none |-> Null],
     resp |-> NoResp, state |-> "", read |-> "none"]

\* no POST /device/control has succeeded
NonePosted == [none |-> Null]

\* process.env without the development switch and without an SMTP account
NoEnv ==
    [DEV_ALLOW_TRUNCATE |-> "", SMTP_USER |-> "", SMTP_PASS |-> "",
     ALERT_EMAIL_TO |-> ""]

\* alerts, device control and fences before any request
AdminIdle ==
    /\ alerts = NoAlerts
    /\ device_controls = <<>>
    /\ virtual_fences = NoFences
    /\ env = NoEnv
    /\ web = [c \in Clients |-> NoRequest]
    /\ posted = NonePosted

\* command dispatch before any request: no handler running, the device set up
CommandsIdle ==
    /\ system_settings = NoSettings
    /\ clock = 0
    /\ cfg = NoConfig
    /\ dev = NoDevice

\* the server starts on a datastore that is empty, or that holds the history
\* row and the current record that the ingest of SeedBody at time 0 leaves
Init ==
    /\ animal_locations \in {<<>>, InsertHistory(<<>>, HistoryParams(SeedBody, 0))}
    /\ current_locations =
         IF animal_locations = <<>> THEN <<>>
         ELSE UpsertCurrent(<<>>, UpsertParams(SeedBody, 0))
    /\ events = <<>>
    /\ now = 0
    /\ calls = 0
    /\ faults = 0
    /\ pc = [h \in Handlers |-> "idle"]
    /\ req = [h \in Handlers |-> NoBody]
    /\ params = [h \in Handlers |-> NoParams]
    /\ upsertParams = [h \in Handlers |-> NoParams]
    /\ hist = [h \in Handlers |-> "none"]
    /\ ups = [h \in Handlers |-> "none"]
    /\ emit = [h \in Handlers |-> "none"]
    /\ resp = [h \in Handlers |-> NoResp]
    /\ pre = [h \in Handlers |-> [al |-> animal_locations, cl |-> current_locations, ev |-> <<>>]]
    /\ post = [h \in Handlers |-> <<>>]
    /\ prev = [h \in Handlers |-> NoPrev]
    /\ upserted = IF animal_locations = <<>> THEN {} ELSE {UpsertParams(SeedBody, 0)}
    /\ device_commands = <<>>
    /\ CommandsIdle
    /\ AdminIdle

\* a step that fails (is_fault) uses up one of the failures of the behaviour
Fault(is_fault) ==
    IF is_fault THEN faults < MaxFaults /\ faults' = faults + 1
    ELSE faults' = faults

\* new Date(): the clock never runs backwards, so a read returns the time of
\* the last read or a later one. Times are only compared, so the later time
\* is taken to be the next one. A step that does not read the clock
\* (reads = FALSE) leaves it alone
ReadClock(reads, t) ==
    /\ t \in {now, now + 1}
    /\ t <= MaxClock
    /\ ~reads => t = now
    /\ now' = t

\* whether the history parameters of body b need new Date()
ReadsDate(b) == ~Truthy(DefaultNull(b.recorded_at))

(***************************************************************************)
(* router.post('/'): one step per await                                    *)
(***************************************************************************)
\* what a handler remembers of the call it has just answered: the body and
\* the outcomes of a correction, nothing of any other call
LastCall(h) ==
    IF Branch(req[h]) = "correction"
    THEN [req |-> req[h], hist |-> hist[h], ups |-> ups[h]]
    ELSE NoPrev

\* Arrive of a handler that issues the upsert of a correction or attributed
\* report without having awaited its history statement
ArriveUpsertFirst(h, b, t) ==
    /\ pc[h] \in {"idle", "done"}
    /\ calls < MaxCalls
    /\ ReadClock(Branch(b) = "raw" \/ (Branch(b) # "invalid" /\ ReadsDate(b)), t)
    /\ calls' = calls + 1
    /\ req' = [req EXCEPT ![h] = b]
    /\ post' = [post EXCEPT ![h] = <<>>]
    /\ hist' = [hist EXCEPT ![h] = "none"]
    /\ ups' = [ups EXCEPT ![h] = "none"]
    /\ emit' = [emit EXCEPT ![h] = "none"]
    /\ CASE Branch(b) \in {"correction", "attributed"} ->
              /\ params' = [params EXCEPT ![h] = HistoryParams(b, t)]
              /\ upsertParams' = [upsertParams EXCEPT ![h] = UpsertParams(b, t)]
              /\ resp' = [resp EXCEPT ![h] = NoResp]
              /\ pc' = [pc EXCEPT ![h] = "upsert"]
         [] Branch(b) = "invalid" ->
              /\ params' = [params EXCEPT ![h] = NoParams]
              /\ upsertParams' = [upsertParams EXCEPT ![h] = NoParams]
              /\ resp' = [resp EXCEPT ![h] = Resp(400, FALSE, "Missing coordinates")]
              /\ pc' = [pc EXCEPT ![h] = "done"]
         [] Branch(b) = "raw" ->
              /\ params' = [params EXCEPT ![h] = NoParams]
              /\ upsertParams' = [upsertParams EXCEPT ![h] = RawUpsertParams(b, t)]
              /\ resp' = [resp EXCEPT ![h] = NoResp]
              /\ pc' = [pc EXCEPT ![h] = "upsert"]
    /\ UNCHANGED <<animal_locations, current_locations, events, faults, upserted,
                   cmdVars, admVars>>

\* a request arrives at a free handler; the handler runs to its first await
\* (or to its response, when the coordinates are missing)
Arrive(h, b, t) ==
    /\ pc[h] \in {"idle", "done"}
    /\ calls < MaxCalls
    /\ ReadClock(Branch(b) = "raw" \/ (Branch(b) # "invalid" /\ ReadsDate(b)), t)
    /\ calls' = calls + 1
    /\ req' = [req EXCEPT ![h] = b]
    /\ post' = [post EXCEPT ![h] = <<>>]
    /\ hist' = [hist EXCEPT ![h] = "none"]
    /\ ups' = [ups EXCEPT ![h] = "none"]
    /\ emit' = [emit EXCEPT ![h] = "none"]
    /\ CASE Branch(b) \in {"correction", "attributed"} ->
              /\ params' = [params EXCEPT ![h] = HistoryParams(b, t)]
              /\ upsertParams' = [upsertParams EXCEPT ![h] = NoParams]
              /\ resp' = [resp EXCEPT ![h] = NoResp]
              /\ pc' = [pc EXCEPT ![h] = "history"]
         [] Branch(b) = "invalid" ->
              /\ params' = [params EXCEPT ![h] = NoParams]
              /\ upsertParams' = [upsertParams EXCEPT ![h] = NoParams]
              /\ resp' = [resp EXCEPT ![h] = Resp(400, FALSE, "Missing coordinates")]
              /\ pc' = [pc EXCEPT ![h] = "done"]
         [] Branch(b) = "raw" ->
              /\ params' = [params EXCEPT ![h] = NoParams]
              /\ upsertParams' = [upsertParams EXCEPT ![h] = RawUpsertParams(b, t)]
              /\ resp' = [resp EXCEPT ![h] = NoResp]
              /\ pc' = [pc EXCEPT ![h] = "upsert"]
    /\ UNCHANGED <<animal_locations, current_locations, events, faults, upserted,
                   cmdVars, admVars>>

\* a call that starts when no other call is running: what the tables held
\* and what the handler answered last are remembered, to compare with later
Begin(h, b, t) ==
    /\ \A g \in Handlers : pc[g] \in {"idle", "done"}
    /\ Arrive(h, b, t)
    /\ pre' = [pre EXCEPT ![h] = Snapshot]
    /\ prev' = [prev EXCEPT ![h] = LastCall(h)]

\* a call that may start while another call is running
BeginConc(h, b, t) ==
    /\ Arrive(h, b, t)
    /\ UNCHANGED <<pre, prev>>

\* the datastore executes the history statement of the call: the INSERT of
\* the attributed branch or the UPDATE of the correction branch
HistoryWrite(h, o) ==
    /\ pc[h] = "history"
    /\ o \in Outcomes(params[h])
    /\ Fault(o # "ok" /\ ~HasNaN(params[h]))
    /\ hist' = [hist EXCEPT ![h] = o]
    /\ animal_locations' =
         IF o # "ok" THEN animal_locations
         ELSE IF Branch(req[h]) = "correction"
              THEN UpdateHistory(animal_locations, params[h], UpdateId(req[h]))
              ELSE InsertHistory(animal_locations, params[h])
    /\ pc' = [pc EXCEPT ![h] = "historyDone"]
    /\ UNCHANGED <<current_locations, events, now, calls, req, params,
                   upsertParams, ups, emit, resp, pre, post, prev, upserted,
                   cmdVars, admVars>>

\* ResultSuccess of a handler that does not look at result.success
ResultSuccessAlways(o) == TRUE

\* result.success of the result that executeQuery resolved to
ResultSuccess(o) == o = "ok"

\* the handler resumes after the history statement: a rejected promise goes
\* to the outer catch, a result without success is answered with 500, and
\* otherwise the upsert is prepared
HistoryResume(h, t) ==
    /\ pc[h] = "historyDone"
    /\ ReadClock(hist[h] # "throw" /\ ResultSuccess(hist[h]) /\ ReadsDate(req[h]), t)
    /\ CASE hist[h] # "throw" /\ ~ResultSuccess(hist[h]) ->
              /\ resp' = [resp EXCEPT ![h] =
                   Resp(500, FALSE,
                        IF Branch(req[h]) = "correction"
                        THEN "Failed to update animal_locations"
                        ELSE "Database error")]
              /\ pc' = [pc EXCEPT ![h] = "done"]
              /\ UNCHANGED upsertParams
         [] hist[h] = "throw" ->
              /\ resp' = [resp EXCEPT ![h] = Resp(500, FALSE, "Internal server error")]
              /\ pc' = [pc EXCEPT ![h] = "done"]
              /\ UNCHANGED upsertParams
         [] OTHER ->
              /\ upsertParams' = [upsertParams EXCEPT ![h] = UpsertParams(req[h], t)]
              /\ pc' = [pc EXCEPT ![h] = "upsert"]
              /\ UNCHANGED resp
    /\ UNCHANGED <<animal_locations, current_locations, events, calls, faults,
                   req, params, hist, ups, emit, pre, post, prev, upserted,
                   cmdVars, admVars>>

\* the datastore executes the current_locations upsert of the call
UpsertWrite(h, o) ==
    /\ pc[h] = "upsert"
    /\ o \in Outcomes(upsertParams[h])
    /\ Fault(o # "ok" /\ ~HasNaN(upsertParams[h]))
    /\ ups' = [ups EXCEPT ![h] = o]
    /\ current_locations' =
         IF o # "ok" THEN current_locations
         ELSE IF Branch(req[h]) = "raw"
              THEN UpsertRaw(current_locations, upsertParams[h])
              ELSE UpsertCurrent(current_locations, upsertParams[h])
    /\ post' = [post EXCEPT ![h] = current_locations']
    /\ upserted' = IF o = "ok" THEN upserted \cup {upsertParams[h]} ELSE upserted
    /\ pc' = [pc EXCEPT ![h] = "upsertDone"]
    /\ UNCHANGED <<animal_locations, events, now, calls, req, params,
                   upsertParams, hist, emit, resp, pre, prev,
                   cmdVars, admVars>>

\* whether the handler reaches gpsEmitter.emit after the upsert returned:
\* the correction and attributed branches do not look at the result of
\* executeQuery, the raw branch returns 500 unless it reports success
ReachesEmit(branch, o) ==
    IF branch = "raw" THEN o # "throw" /\ ResultSuccess(o) ELSE o # "throw"

\* UpsertResponse of a handler for which a failed upsert is fatal
UpsertResponseChecked(branch, o) ==
    IF o = "ok"
    THEN Resp(200, TRUE,
              CASE branch = "correction" -> "GPS record updated"
                [] branch = "attributed" -> "Animal location saved"
                [] OTHER -> "GPS coordinates saved (updated current location)")
    ELSE Resp(500, FALSE, "Database error")

\* the response after the upsert returned
UpsertResponse(branch, o) ==
    CASE branch = "correction" -> Resp(200, TRUE, "GPS record updated")
      [] branch = "attributed" -> Resp(200, TRUE, "Animal location saved")
      [] branch = "raw" /\ o = "throw" -> Resp(500, FALSE, "Internal server error")
      [] branch = "raw" /\ ~ResultSuccess(o) -> Resp(500, FALSE, "Database error")
      [] OTHER -> Resp(200, TRUE, "GPS coordinates saved (updated current location)")

\* EmitCaught of a handler whose raw branch has no try around emit
EmitCaughtNotRaw(branch) == branch \in {"correction", "attributed"}

\* whether an exception of gpsEmitter.emit is caught by the try around it
EmitCaught(branch) == branch \in {"correction", "attributed", "raw"}

\* the response of a call whose emit outcome was e: an exception that is not
\* caught around emit reaches the enclosing catch (raw branch) or ends the
\* upsert's try block, after which the handler answers as usual
EmitResponse(branch, o, e) ==
    IF e = "throw" /\ ~EmitCaught(branch) /\ branch = "raw"
    THEN Resp(500, FALSE, "Internal server error")
    ELSE UpsertResponse(branch, o)

\* the handler resumes after the upsert: it publishes the event (e says
\* whether emit returns or throws) and responds
UpsertResume(h, e) ==
    /\ pc[h] = "upsertDone"
    /\ e \in {"ok", "throw"}
    /\ IF ReachesEmit(Branch(req[h]), ups[h])
       THEN /\ events' = Append(events,
                 IF Branch(req[h]) = "raw"
                 THEN RawLocationEvent(req[h], upsertParams[h])
                 ELSE LocationEvent(req[h], upsertParams[h]))
            /\ emit' = [emit EXCEPT ![h] = e]
            /\ Fault(e = "throw")
       ELSE /\ e = "ok"
            /\ UNCHANGED <<events, emit, faults>>
    /\ resp' = [resp EXCEPT ![h] = EmitResponse(Branch(req[h]), ups[h], e)]
    /\ pc' = [pc EXCEPT ![h] = "done"]
    /\ UNCHANGED <<animal_locations, current_locations, now, calls, req, params,
                   upsertParams, hist, ups, pre, post, prev, upserted,
                   cmdVars, admVars>>

(***************************************************************************)
(* Specifications                                                          *)
(***************************************************************************)
\* what a report says about the position: nothing, a bare fix, or a fix
\* with its time and telemetry (sent as strings, as a device may)
NoFix == [latitude |-> Undef, longitude |-> Undef, recorded_at |-> Undef, tel |-> NoTelemetry]
BareFix == [latitude |-> Num(40), longitude |-> Num(10), recorded_at |-> Undef, tel |-> NoTelemetry]
FullFix == [latitude |-> Str(41), longitude |-> Str(11), recorded_at |-> Str(1), tel |-> FullTelemetry]

\* the identities a report may carry: animal and collar, animal only,
\* collar only, none
Both == [animal_id |-> Num(7), collar_id |-> Num(5)]
AnimalOnly == [animal_id |-> Num(7), collar_id |-> Undef]
CollarOnly == [animal_id |-> Undef, collar_id |-> Num(5)]
Neither == [animal_id |-> Undef, collar_id |-> Undef]

Report(u, id, e, f) ==
    Body(u, id, e.animal_id, e.collar_id, f.latitude, f.longitude, f.recorded_at, f.tel)

\* reports without update_id or id: attributed, raw, and without coordinates
Fresh ==
    { Report(Undef, Undef, Both, BareFix), Report(Undef, Undef, AnimalOnly, FullFix),
      Report(Undef, Undef, CollarOnly, BareFix), Report(Undef, Undef, Neither, BareFix),
      Report(Undef, Undef, Neither, FullFix),
      Report(Undef, Undef, Both, NoFix), Report(Undef, Undef, Neither, NoFix) }

\* corrections of history row 1, named by update_id or by id
Corrections ==
    { Report(Num(1), Undef, Both, NoFix), Report(Num(1), Undef, Both, BareFix),
      Report(Num(1), Undef, Both, FullFix), Report(Undef, Str(1), AnimalOnly, FullFix) }

\* the bodies sent when calls are made one after the other
Reports == Fresh \cup Corrections

\* the bodies sent when two calls may overlap
ReportsConc ==
    { Report(Undef, Undef, e, BareFix) : e \in {Both, CollarOnly, Neither} }
    \cup { Report(Undef, Undef, AnimalOnly, FullFix) }

\* calls are handled one at a time, by handler 1
Next ==
    \/ \E b \in Reports, t \in 0..MaxClock : Begin(1, b, t)
    \/ \E o \in {"ok", "fail", "throw"} : HistoryWrite(1, o)
    \/ \E t \in 0..MaxClock : HistoryResume(1, t)
    \/ \E o \in {"ok", "fail", "throw"} : UpsertWrite(1, o)
    \/ \E e \in {"ok", "throw"} : UpsertResume(1, e)

\* ingest alone: command dispatch stays as it started
Spec == Init /\ [][Next]_vars

\* calls are handled by two handlers whose steps interleave. The outcomes
\* left out here (a history statement that throws, a subscriber that throws)
\* differ from the ones kept only in the message of the call's own response
NextConc ==
    \/ \E h \in Handlers :
         \/ \E b \in ReportsConc, t \in 0..MaxClock : BeginConc(h, b, t)
         \/ \E o \in {"ok", "fail"} : HistoryWrite(h, o)
         \/ \E t \in 0..MaxClock : HistoryResume(h, t)
         \/ \E o \in {"ok", "fail", "throw"} : UpsertWrite(h, o)
         \/ UpsertResume(h, "ok")

\* the concurrent calls start on an empty datastore
InitConc == Init /\ animal_locations = <<>>

SpecConc == InitConc /\ [][NextConc]_vars

(***************************************************************************)
(* Properties of ingest, for calls made one after the other (Spec)         *)
(***************************************************************************)
\* the call of handler h has been answered
Done(h) == pc[h] = "done"

\* the identity a body names, as the statements receive it
Identity(b) ==
    [animal_id |-> DefaultNull(b.animal_id), collar_id |-> DefaultNull(b.collar_id)]

\* the positions of the current records that have the entity key of p
RecordsOf(tbl, p) == {i \in DOMAIN tbl : DuplicateKey(tbl[i], p)}

\* the number of history rows that carry the identity p
HistoryCount(tbl, p) ==
    Cardinality({i \in DOMAIN tbl :
                   tbl[i].animal_id = p.animal_id /\ tbl[i].collar_id = p.collar_id})

\* the body has no update_id and no id
NoUpdateId(b) == ~Truthy(b.update_id) /\ ~Truthy(b.id)

\* the body has both coordinates
HasCoordinates(b) == b.latitude \notin {Undef, Null} /\ b.longitude \notin {Undef, Null}

\* the body names an animal or a collar
HasIdentity(b) == Truthy(DefaultNull(b.animal_id)) \/ Truthy(DefaultNull(b.collar_id))

\* no statement of the call of handler h failed
NoFailure(h) == hist[h] \in {"none", "ok"} /\ ups[h] \in {"none", "ok"}

\* C1: an attributed report with coordinates and without update_id, handled
\* without a datastore failure, adds exactly one history row (the count for
\* the entity grows by exactly 1) and leaves exactly one current record for
\* the entity's key, with the latitude and longitude of the report.
C1_AttributedIngest ==
    \A h \in Handlers :
        (/\ Done(h)
         /\ NoUpdateId(req[h]) /\ HasCoordinates(req[h]) /\ HasIdentity(req[h])
         /\ NoFailure(h))
        => /\ Len(animal_locations) = Len(pre[h].al) + 1
           /\ HistoryCount(animal_locations, Identity(req[h]))
                = HistoryCount(pre[h].al, Identity(req[h])) + 1
           /\ Cardinality(RecordsOf(current_locations, Identity(req[h]))) = 1
           /\ \A i \in RecordsOf(current_locations, Identity(req[h])) :
                /\ current_locations[i].latitude = Number(req[h].latitude)
                /\ current_locations[i].longitude = Number(req[h].longitude)

\* an attributed report has been ingested over an existing current record
\* of its entity that held another latitude
C1_Witness ==
    \E h \in Handlers :
        /\ Done(h)
        /\ NoUpdateId(req[h]) /\ HasCoordinates(req[h]) /\ HasIdentity(req[h])
        /\ NoFailure(h)
        /\ \E i \in RecordsOf(pre[h].cl, Identity(req[h])) :
             pre[h].cl[i].latitude # Number(req[h].latitude)

\* C2: a report with coordinates, without update_id and without identity
\* writes no history row and changes no current record other than the
\* sentinel record (animal_id = 0).
C2_RawIngestFrame ==
    \A h \in Handlers :
        (Done(h) /\ NoUpdateId(req[h]) /\ HasCoordinates(req[h]) /\ ~HasIdentity(req[h]))
        => /\ animal_locations = pre[h].al
           /\ Len(current_locations) >= Len(pre[h].cl)
           /\ \A i \in DOMAIN current_locations :
                \/ current_locations[i].animal_id = Num(0)
                \/ (i \in DOMAIN pre[h].cl /\ current_locations[i] = pre[h].cl[i])

\* a raw report has changed the current table while other records exist
C2_Witness ==
    \E h \in Handlers :
        /\ Done(h) /\ NoUpdateId(req[h]) /\ HasCoordinates(req[h]) /\ ~HasIdentity(req[h])
        /\ ups[h] = "ok"
        /\ pre[h].cl # <<>>
        /\ pre[h].al # <<>>
        /\ current_locations # pre[h].cl

\* C3: when the history write of a call fails, the call answers 500 and
\* makes neither a current upsert nor a publish.
C3_HistoryFailureIsFatal ==
    \A h \in Handlers :
        (Done(h) /\ hist[h] \in {"fail", "throw"})
        => /\ resp[h].status = 500 /\ ~resp[h].success
           /\ ups[h] = "none" /\ emit[h] = "none"
           /\ current_locations = pre[h].cl
           /\ events = pre[h].ev

\* the INSERT of an attributed report has failed while a current record of
\* its entity exists
C3_Witness ==
    \E h \in Handlers :
        /\ Done(h) /\ hist[h] = "fail" /\ Branch(req[h]) = "attributed"
        /\ RecordsOf(current_locations, Identity(req[h])) # {}

\* the history table that the history statement of the call of h leaves
HistoryWritten(h) ==
    IF Branch(req[h]) = "correction"
    THEN UpdateHistory(pre[h].al, params[h], UpdateId(req[h]))
    ELSE InsertHistory(pre[h].al, params[h])

\* C4: when the current upsert fails (error result or exception) after the
\* history write of the call succeeded, the call still answers success and
\* the history row it wrote remains.
C4_UpsertFailureIsNotFatal ==
    \A h \in Handlers :
        (Done(h) /\ hist[h] = "ok" /\ ups[h] \in {"fail", "throw"})
        => /\ resp[h].success /\ resp[h].status = 200
           /\ animal_locations = HistoryWritten(h)
           /\ current_locations = pre[h].cl

\* the upsert of an attributed report has failed after its row was inserted
C4_Witness ==
    \E h \in Handlers :
        /\ Done(h) /\ hist[h] = "ok" /\ ups[h] \in {"fail", "throw"}
        /\ Branch(req[h]) = "attributed"
        /\ Len(animal_locations) = Len(pre[h].al) + 1

\* C5: a call publishes a 'location' event only if its current upsert
\* succeeded: when the upsert fails after the history write succeeded, by
\* a result without success or by an exception, it publishes nothing.
C5_NoEventAfterFailedUpsert ==
    \A h \in Handlers :
        (Done(h) /\ hist[h] = "ok" /\ ups[h] \in {"fail", "throw"})
        => events = pre[h].ev

\* the success response of each branch
SuccessMessage(branch) ==
    CASE branch = "correction" -> "GPS record updated"
      [] branch = "attributed" -> "Animal location saved"
      [] OTHER -> "GPS coordinates saved (updated current location)"

\* C6: when gpsEmitter.emit throws, the call answers with the success
\* response of its branch, as when publishing succeeds, and the history and
\* current writes it made are kept.
C6_EmitFailureIsSwallowed ==
    \A h \in Handlers :
        (Done(h) /\ emit[h] = "throw")
        => /\ resp[h] = Resp(200, TRUE, SuccessMessage(Branch(req[h])))
           /\ current_locations = post[h]
           /\ animal_locations =
                IF Branch(req[h]) = "raw" THEN pre[h].al ELSE HistoryWritten(h)

\* emit has thrown in a raw call whose upsert changed the current table
C6_Witness ==
    \E h \in Handlers :
        /\ Done(h) /\ emit[h] = "throw" /\ Branch(req[h]) = "raw"
        /\ current_locations # pre[h].cl

\* C7: a report without update_id and id that lacks a coordinate is
\* answered 400 'Missing coordinates', changes neither table and publishes
\* nothing, whatever identity it carries.
C7_MissingCoordinates ==
    \A h \in Handlers :
        (Done(h) /\ NoUpdateId(req[h]) /\ ~HasCoordinates(req[h]))
        => /\ resp[h] = Resp(400, FALSE, "Missing coordinates")
           /\ animal_locations = pre[h].al
           /\ current_locations = pre[h].cl
           /\ events = pre[h].ev
           /\ hist[h] = "none" /\ ups[h] = "none" /\ emit[h] = "none"

\* a report that names an animal and lacks its coordinates has been
\* answered while the tables hold rows
C7_Witness ==
    \E h \in Handlers :
        /\ Done(h) /\ NoUpdateId(req[h]) /\ ~HasCoordinates(req[h])
        /\ HasIdentity(req[h])
        /\ pre[h].al # <<>> /\ pre[h].cl # <<>>

\* the values a 'location' event field has as a column of current_locations
AsColumn(f, x) == IF f = "recorded_at" THEN ToDatetime(x) ELSE x

\* C8: every 'location' event published by a call carries, for each of its
\* fields, the value that the current record of that key holds right after
\* the call's upsert, be the record inserted or overwritten.
C8_EventEqualsRecord ==
    \A h \in Handlers :
        (Done(h) /\ emit[h] # "none")
        => LET e == events[Len(events)]
           IN \E i \in RecordsOf(post[h], upsertParams[h]) :
                \A f \in DOMAIN e : post[h][i][f] = AsColumn(f, e[f])

\* the writes of the call of h and of the call before it all succeeded
BothCallsSucceeded(h) ==
    /\ hist[h] = "ok" /\ ups[h] = "ok"
    /\ prev[h].hist = "ok" /\ prev[h].ups = "ok"

\* the call of h is a correction with the body of the call before it
SameCorrectionAgain(h) ==
    Done(h) /\ Branch(req[h]) = "correction" /\ prev[h].req = req[h]

\* the current record of the entity of the call of h holds the call's values
RecordHoldsCall(h) ==
    \E i \in RecordsOf(current_locations, upsertParams[h]) :
        \A f \in UpsertCols :
            current_locations[i][f] = AsColumn(f, upsertParams[h][f])

\* a row or record with its recorded_at left out
WithoutTime(r) == [r EXCEPT !.recorded_at = Null]

\* C9 as stated: after the same correction is made twice, the number of
\* history rows is unchanged, the current record holds the values of the
\* latest call, and the state after the second call equals the state after
\* the first.
C9_SameStateAfterSecondCorrection ==
    \A h \in Handlers :
        (SameCorrectionAgain(h) /\ BothCallsSucceeded(h))
        => /\ Len(animal_locations) = Len(pre[h].al)
           /\ RecordHoldsCall(h)
           /\ animal_locations = pre[h].al
           /\ current_locations = pre[h].cl

\* C9 (amended): after the same correction is made twice the number of
\* history rows is unchanged; when the writes of both calls succeeded, the
\* current record holds the values of the latest call and the state after
\* the second call equals the state after the first if recorded_at was
\* supplied, and otherwise differs from it at most in the recorded_at of the
\* corrected row and of that current record.
C9_CorrectionTwice ==
    \A h \in Handlers :
        SameCorrectionAgain(h)
        => /\ Len(animal_locations) = Len(pre[h].al)
           /\ BothCallsSucceeded(h) =>
                /\ RecordHoldsCall(h)
                /\ Len(current_locations) = Len(pre[h].cl)
                /\ \A i \in DOMAIN animal_locations :
                     \/ animal_locations[i] = pre[h].al[i]
                     \/ /\ animal_locations[i].id = Number(UpdateId(req[h]))
                        /\ WithoutTime(animal_locations[i]) = WithoutTime(pre[h].al[i])
                /\ \A i \in DOMAIN current_locations :
                     \/ current_locations[i] = pre[h].cl[i]
                     \/ /\ i \in RecordsOf(current_locations, upsertParams[h])
                        /\ WithoutTime(current_locations[i]) = WithoutTime(pre[h].cl[i])
                /\ Truthy(DefaultNull(req[h].recorded_at)) =>
                     /\ animal_locations = pre[h].al
                     /\ current_locations = pre[h].cl

\* the same correction of an existing row, with recorded_at supplied, has
\* been made twice and both calls succeeded
C9_Witness ==
    \E h \in Handlers :
        /\ SameCorrectionAgain(h) /\ BothCallsSucceeded(h)
        /\ Truthy(DefaultNull(req[h].recorded_at))
        /\ \E i \in DOMAIN animal_locations :
             animal_locations[i].id = Number(UpdateId(req[h]))

(***************************************************************************)
(* Properties of ingest, for calls that overlap (SpecConc)                 *)
(***************************************************************************)
\* C10: in every reachable state current_locations holds at most one record
\* per entity key, and exactly one for each key that has had a successful
\* upsert.
C10_OneRecordPerKey ==
    /\ \A i, j \in DOMAIN current_locations :
         i # j => ~DuplicateKey(current_locations[i], current_locations[j])
    /\ \A p \in upserted : Cardinality(RecordsOf(current_locations, p)) = 1

\* two overlapping calls for the same key have both had their upsert
\* executed, and records of a collar-only key or of the sentinel key exist
C10_Witness ==
    /\ pc[1] = "upsertDone" /\ pc[2] = "upsertDone"
    /\ ups[1] = "ok" /\ ups[2] = "ok"
    /\ DuplicateKey(upsertParams[1], upsertParams[2])
    /\ upsertParams[1].latitude # upsertParams[2].latitude

\* no call is in flight
Quiescent == \A h \in Handlers : pc[h] \in {"idle", "done"}

\* the history rows of the entity key of record r
HistoryOf(r) ==
    {i \in DOMAIN animal_locations : DuplicateKey(r, animal_locations[i])}

\* the history row most recently written for the key of record r (rows are
\* appended, and no row is corrected in SpecConc)
LatestHistory(r) ==
    animal_locations[CHOOSE i \in HistoryOf(r) : \A j \in HistoryOf(r) : j <= i]

\* C11: in every reachable state in which no current-record upsert has
\* failed, the recorded_at of each current record is at least the recorded_at
\* of the history row most recently written for its key, also when the
\* history writes and upserts of two calls for the key interleave.  Stated
\* for the states in which no call is in flight and nothing has failed.
C11_CurrentNotOlderThanHistory ==
    (Quiescent /\ faults = 0)
    => \A i \in DOMAIN current_locations :
         HistoryOf(current_locations[i]) # {}
         => current_locations[i].recorded_at
              >= LatestHistory(current_locations[i]).recorded_at

\* the history row that the INSERT of the call of h appended
HistoryRowOf(h, i) ==
    /\ i \in DOMAIN animal_locations
    /\ animal_locations[i] =
         [params[h] EXCEPT !.recorded_at = ToDatetime(params[h].recorded_at)]
         @@ [id |-> i]

\* the calls of h and g are attributed, for the same key, and the history
\* write of each succeeded
SameKeyCalls(h, g) ==
    /\ h # g
    /\ Branch(req[h]) = "attributed" /\ Branch(req[g]) = "attributed"
    /\ hist[h] = "ok" /\ hist[g] = "ok"
    /\ DuplicateKey(params[h], params[g])

\* the history rows of two calls for one key are both in animal_locations
BothHistoryRows ==
    \A h, g \in Handlers :
        SameKeyCalls(h, g)
        => \E i, j \in DOMAIN animal_locations :
             i # j /\ HistoryRowOf(h, i) /\ HistoryRowOf(g, j)

\* this step is the datastore committing the upsert of the call of h
CommitsUpsert(h) ==
    pc[h] = "upsert" /\ pc'[h] = "upsertDone" /\ ups'[h] = "ok"

\* a step changes current_locations only by committing an upsert, and the
\* record of the key then holds the values of the committing call, whatever
\* the other call has done; history rows are never lost
LastCommitWins ==
    /\ (\A h \in Handlers : ~CommitsUpsert(h))
         => current_locations' = current_locations
    /\ \A h \in Handlers :
         (CommitsUpsert(h) /\ Branch(req[h]) = "attributed")
         => /\ Cardinality(RecordsOf(current_locations', upsertParams[h])) = 1
            /\ \A i \in RecordsOf(current_locations', upsertParams[h]) :
                 \A f \in UpsertCols :
                   current_locations'[i][f] = AsColumn(f, upsertParams[h][f])
    /\ \A i \in DOMAIN animal_locations :
         i \in DOMAIN animal_locations' /\ animal_locations'[i] = animal_locations[i]

\* C12: when two ingest calls for the same key overlap and both succeed,
\* both history rows are appended and neither is lost, and the current
\* record of the key holds the values (the columns an upsert overwrites) of
\* the call whose upsert was committed last: every commit overwrites the
\* record with its own call's values and nothing else changes the record.
C12_LastWriteWins == [] BothHistoryRows /\ [][LastCommitWins]_vars

\* two overlapping calls for one key with different values both succeeded,
\* and the record holds the values of the call whose history row is the
\* older one: its upsert was committed last
C12_Witness ==
    /\ SameKeyCalls(1, 2)
    /\ pc[1] = "upsertDone" /\ pc[2] = "upsertDone"
    /\ ups[1] = "ok" /\ ups[2] = "ok"
    /\ upsertParams[1].recorded_at # upsertParams[2].recorded_at
    /\ HistoryRowOf(1, 1) /\ HistoryRowOf(2, 2)
    /\ \E i \in DOMAIN current_locations :
         /\ DuplicateKey(current_locations[i], upsertParams[1])
         /\ current_locations[i].recorded_at = ToDatetime(upsertParams[1].recorded_at)

(***************************************************************************)
(* updateAnimalLocation (POST /dashboard/animals/:id/location), run by     *)
(* handler 2 next to the POST /gps calls of handler 1                      *)
(***************************************************************************)
\* the value an INT column stores for a numeric string
ToInt(x) == IF IsStr(x) THEN Number(x) ELSE x

\* params of updateAnimalLocation: req.params.id is carried in the id field
\* of the body; it is a string, which the animal_id column stores as a number
LocationParams(b, t) ==
    [HistoryParams(b, t) EXCEPT !.animal_id = ToInt(b.id)]

\* !latitude || !longitude
LocationMissing(b) == ~Truthy(b.latitude) \/ ~Truthy(b.longitude)

\* the request arrives and runs to the await of the SELECT on animals, or to
\* its 400 response
LocationArrive(b) ==
    /\ pc[2] \in {"idle", "done"}
    /\ calls < MaxCalls
    /\ calls' = calls + 1
    /\ req' = [req EXCEPT ![2] = b]
    /\ params' = [params EXCEPT ![2] = NoParams]
    /\ hist' = [hist EXCEPT ![2] = "none"]
    /\ IF LocationMissing(b)
       THEN /\ resp' = [resp EXCEPT ![2] =
                          Resp(400, FALSE, "latitude and longitude are required")]
            /\ pc' = [pc EXCEPT ![2] = "done"]
       ELSE /\ resp' = [resp EXCEPT ![2] = NoResp]
            /\ pc' = [pc EXCEPT ![2] = "animalCheck"]
    /\ UNCHANGED <<animal_locations, current_locations, events, now, faults,
                   upsertParams, ups, emit, pre, post, prev, upserted,
                   cmdVars, admVars>>

\* the SELECT on animals returns (the animals table is outside the model, so
\* its answer is any of: a row, no row, no success, an exception) and the
\* handler runs to the await of its INSERT
LocationCheck(chk, t) ==
    /\ pc[2] = "animalCheck"
    /\ Fault(chk \in {"fail", "throw"})
    /\ ReadClock(chk = "found" /\ ReadsDate(req[2]), t)
    /\ CASE chk = "found" ->
              /\ params' = [params EXCEPT ![2] = LocationParams(req[2], t)]
              /\ resp' = resp
              /\ pc' = [pc EXCEPT ![2] = "locationInsert"]
         [] chk \in {"missing", "fail"} ->
              /\ params' = params
              /\ resp' = [resp EXCEPT ![2] = Resp(404, FALSE, "Animal not found")]
              /\ pc' = [pc EXCEPT ![2] = "done"]
         [] chk = "throw" ->
              /\ params' = params
              /\ resp' = [resp EXCEPT ![2] = Resp(500, FALSE, "Internal server error")]
              /\ pc' = [pc EXCEPT ![2] = "done"]
    /\ UNCHANGED <<animal_locations, current_locations, events, calls, req,
                   upsertParams, hist, ups, emit, pre, post, prev, upserted,
                   cmdVars, admVars>>

\* LocationInsert that also upserts the current record of the animal
LocationInsertUpserts(o) ==
    /\ pc[2] = "locationInsert"
    /\ o \in Outcomes(params[2])
    /\ Fault(o # "ok" /\ ~HasNaN(params[2]))
    /\ hist' = [hist EXCEPT ![2] = o]
    /\ animal_locations' =
         IF o = "ok" THEN InsertHistory(animal_locations, params[2])
         ELSE animal_locations
    /\ current_locations' =
         IF o = "ok" THEN Upsert(current_locations, params[2], UpsertCols)
         ELSE current_locations
    /\ resp' = [resp EXCEPT ![2] =
                  CASE o = "ok" -> Resp(201, TRUE, "Location saved")
                    [] o = "fail" -> Resp(500, FALSE, "Failed to save location")
                    [] OTHER -> Resp(500, FALSE, "Internal server error")]
    /\ pc' = [pc EXCEPT ![2] = "done"]
    /\ UNCHANGED <<events, now, calls, req, params,
                   upsertParams, ups, emit, pre, post, prev, upserted,
                   cmdVars, admVars>>

\* the datastore executes the INSERT and the handler answers
LocationInsert(o) ==
    /\ pc[2] = "locationInsert"
    /\ o \in Outcomes(params[2])
    /\ Fault(o # "ok" /\ ~HasNaN(params[2]))
    /\ hist' = [hist EXCEPT ![2] = o]
    /\ animal_locations' =
         IF o = "ok" THEN InsertHistory(animal_locations, params[2])
         ELSE animal_locations
    /\ resp' = [resp EXCEPT ![2] =
                  CASE o = "ok" -> Resp(201, TRUE, "Location saved")
                    [] o = "fail" -> Resp(500, FALSE, "Failed to save location")
                    [] OTHER -> Resp(500, FALSE, "Internal server error")]
    /\ pc' = [pc EXCEPT ![2] = "done"]
    /\ UNCHANGED <<current_locations, events, now, calls, req, params,
                   upsertParams, ups, emit, pre, post, prev, upserted,
                   cmdVars, admVars>>

\* the route parameter and bodies sent to updateAnimalLocation
LocationReports ==
    { Body(Undef, Str(7), Undef, c, f.latitude, f.longitude, f.recorded_at, f.tel) :
        c \in {Undef, Num(5)}, f \in {NoFix, BareFix} }

\* the bodies sent to POST /gps next to them
ReportsHistory ==
    { Report(Num(1), Undef, Both, BareFix), Report(Undef, Str(2), AnimalOnly, FullFix),
      Report(Undef, Undef, Both, FullFix), Report(Undef, Undef, Neither, BareFix) }

\* every operation that writes animal_locations
NextHistory ==
    \/ \E b \in ReportsHistory, t \in 0..MaxClock : Begin(1, b, t)
    \/ \E o \in {"ok", "fail", "throw"} : HistoryWrite(1, o)
    \/ \E t \in 0..MaxClock : HistoryResume(1, t)
    \/ \E o \in {"ok", "fail", "throw"} : UpsertWrite(1, o)
    \/ \E e \in {"ok", "throw"} : UpsertResume(1, e)
    \/ \E b \in LocationReports : LocationArrive(b)
    \/ \E chk \in {"found", "missing", "fail", "throw"}, t \in 0..MaxClock :
         LocationCheck(chk, t)
    \/ \E o \in {"ok", "fail", "throw"} : LocationInsert(o)

SpecHistory == Init /\ [][NextHistory]_vars

\* this step is the datastore executing the UPDATE of a correction by h
CorrectsHistory(h) ==
    /\ pc[h] = "history" /\ pc'[h] = "historyDone"
    /\ Branch(req[h]) = "correction"

\* a step deletes no history row, and changes the fields of a row only if
\* it is the UPDATE of a correction and the row has the id it names
HistoryKept ==
    /\ Len(animal_locations') >= Len(animal_locations)
    /\ \A i \in DOMAIN animal_locations :
         \/ animal_locations'[i] = animal_locations[i]
         \/ /\ \E h \in Handlers :
                 /\ CorrectsHistory(h)
                 /\ animal_locations[i].id = Number(UpdateId(req[h]))
            /\ animal_locations'[i].id = animal_locations[i].id

\* C13: no operation deletes a row of animal_locations, and the only
\* operation that changes the fields of an existing row is the correction
\* path of POST /gps, which changes only the row with that id; every other
\* operation leaves all existing history rows unchanged.
C13_HistoryAppendOnly == [][HistoryKept]_vars

\* a correction has changed row 1 and left row 2 as it was, and
\* updateAnimalLocation has appended a row
C13_Witness ==
    /\ Done(1) /\ Branch(req[1]) = "correction" /\ hist[1] = "ok"
    /\ Len(pre[1].al) >= 2 /\ Len(animal_locations) >= 2
    /\ animal_locations[1] # pre[1].al[1]
    /\ animal_locations[2] = pre[1].al[2]
    /\ pc[2] = "done" /\ hist[2] = "ok"

\* this step is the history statement of the call of h being executed
HistoryExecuted(h) == hist'[h] # hist[h] /\ hist'[h] # "none"

\* this step is the current_locations upsert of the call of h being executed
UpsertExecuted(h) == ups'[h] # ups[h] /\ ups'[h] # "none"

\* this step is the call of h passing its event to gpsEmitter.emit
EmitExecuted(h) == emit'[h] # emit[h] /\ emit'[h] # "none"

\* the steps of one call come in the order history, upsert, publish, each
\* at most once, and the tables and the event stream change in no other step
PipelineOrder ==
    /\ \A h \in Handlers :
         /\ HistoryExecuted(h)
              => hist[h] = "none" /\ ups[h] = "none" /\ emit[h] = "none"
         /\ UpsertExecuted(h)
              => /\ ups[h] = "none" /\ emit[h] = "none"
                 /\ hist[h] = (IF Branch(req[h]) = "raw" THEN "none" ELSE "ok")
                 /\ params[h] # NoParams => pc[h] # "historyDone"
         /\ EmitExecuted(h)
              => emit[h] = "none" /\ ups[h] # "none" /\ pc[h] = "upsertDone"
         /\ (hist'[h] = "none" /\ hist[h] # "none") => calls' = calls + 1
         /\ (ups'[h] = "none" /\ ups[h] # "none") => calls' = calls + 1
         /\ (emit'[h] = "none" /\ emit[h] # "none") => calls' = calls + 1
    /\ animal_locations' # animal_locations => \E h \in Handlers : HistoryExecuted(h)
    /\ current_locations' # current_locations => \E h \in Handlers : UpsertExecuted(h)
    /\ events' # events
         => /\ \E h \in Handlers : EmitExecuted(h)
            /\ Len(events') = Len(events) + 1

\* C14: within one ingest call the steps happen in the order history write,
\* current upsert, event publish, each starting only after the previous one
\* finished, and a call performs at most one of each.
C14_PipelineOrder == [][PipelineOrder]_vars

\* a call has performed all three steps
C14_Witness ==
    \E h \in Handlers :
        /\ Done(h) /\ hist[h] = "ok" /\ ups[h] = "ok" /\ emit[h] = "ok"
        /\ Len(events) > Len(pre[h].ev)
        /\ Len(animal_locations) > Len(pre[h].al)

(***************************************************************************)
(* Command dispatch: updateRemoteConfig (POST /settings/remote-config)     *)
(***************************************************************************)
\* !!x
Bang2(x) == IF Truthy(x) THEN JsTrue ELSE JsFalse

\* typeof x !== 'undefined'
Defined(x) == x # Undef

\* the default of expires_hours for a control command, and for a wifi_update
ControlTtlHours == 1
WifiTtlHours == 24

\* new Date(now.getTime() + ((expires_hours || d) * 60 * 60 * 1000)), in hours
ExpiresAt(t, h, d) == t + Number(Or(h, Num(d)))

\* req.body of updateRemoteConfig
ConfigBody(dev_id, s, l, ssid, pw, th, eh) ==
    [device_id |-> dev_id, soundEnabled |-> s, lightsEnabled |-> l,
     wifiSSID |-> ssid, wifiPassword |-> pw, sensorThreshold |-> th,
     expires_hours |-> eh]

\* typeof soundEnabled !== 'undefined' || typeof lightsEnabled !== 'undefined'
WantsControl(b) == Defined(b.soundEnabled) \/ Defined(b.lightsEnabled)

\* WantsWifi with && for ||
WantsWifiBoth(b) == Truthy(b.wifiSSID) /\ Truthy(b.wifiPassword)

\* wifiSSID || wifiPassword
WantsWifi(b) == Truthy(b.wifiSSID) \/ Truthy(b.wifiPassword)

\* JSON.stringify(controlPayload): the JSON text, as its members in order
ControlPayload(b) ==
    (IF Defined(b.soundEnabled) THEN << <<"sound", Bang2(b.soundEnabled)>> >> ELSE <<>>)
    \o (IF Defined(b.lightsEnabled) THEN << <<"lights", Bang2(b.lightsEnabled)>> >> ELSE <<>>)

\* JSON.stringify({ ssid: wifiSSID || null, password: wifiPassword || null })
WifiPayload(b) ==
    << <<"ssid", Or(b.wifiSSID, Null)>>, <<"password", Or(b.wifiPassword, Null)>> >>

\* the parameters of the INSERT of a control command
ControlCommand(b, t) ==
    [device_id |-> b.device_id, command_type |-> "control",
     payload |-> ControlPayload(b),
     expires_at |-> ExpiresAt(t, b.expires_hours, ControlTtlHours)]

\* the parameters of the INSERT of a wifi_update command
WifiCommand(b, t) ==
    [device_id |-> b.device_id, command_type |-> "wifi_update",
     payload |-> WifiPayload(b),
     expires_at |-> ExpiresAt(t, b.expires_hours, WifiTtlHours)]

\* the column of device_commands the INSERT leaves out: a new command is
\* pending
CommandDefaults == [status |-> "pending"]

\* INSERT INTO device_commands (device_id, command_type, payload, expires_at)
InsertCommand(tbl, p) ==
    Append(tbl, p @@ [id |-> Len(tbl) + 1] @@ CommandDefaults)

\* the columns of system_settings that the UPDATE assigns
SettingsColumns(b) ==
    (IF Defined(b.soundEnabled) THEN {"default_sound_enabled"} ELSE {})
    \cup (IF Defined(b.lightsEnabled) THEN {"default_lights_enabled"} ELSE {})
    \cup (IF Defined(b.sensorThreshold) THEN {"sensor_threshold"} ELSE {})

\* the parameter pushed for column c
SettingsValue(b, c) ==
    CASE c = "default_sound_enabled" -> IF Truthy(b.soundEnabled) THEN Num(1) ELSE Num(0)
      [] c = "default_lights_enabled" -> IF Truthy(b.lightsEnabled) THEN Num(1) ELSE Num(0)
      [] OTHER -> b.sensorThreshold

\* UpdateSettings that also stores the wifi fields of the request
UpdateSettingsWithWifi(row, b) ==
    [c \in DOMAIN row |->
        IF c \in SettingsColumns(b) THEN SettingsValue(b, c)
        ELSE IF c = "wifi_ssid" /\ Truthy(b.wifiSSID) THEN b.wifiSSID
        ELSE IF c = "wifi_password" /\ Truthy(b.wifiPassword) THEN b.wifiPassword
        ELSE row[c]]

\* UPDATE system_settings SET <updates>
UpdateSettings(row, b) ==
    [c \in DOMAIN row |->
        IF c \in SettingsColumns(b) THEN SettingsValue(b, c) ELSE row[c]]

\* the end of the branch without device_id: the wifi fields are refused
GlobalResponse(b) ==
    IF WantsWifi(b)
    THEN Resp(400, FALSE, "Provide device_id to perform wifi update on a specific device")
    ELSE Resp(200, TRUE, "Remote config updated")

\* the handler answers r
ConfigDone(c, r) == [c EXCEPT !.pc = "done", !.resp = r]

\* a request arrives; the handler runs to its first await or to its response
ConfigArrive(b) ==
    /\ cfg.pc \in {"idle", "done"}
    /\ cfg.calls < MaxConfigs
    /\ LET c == [cfg EXCEPT !.calls = @ + 1, !.req = b, !.now = clock,
                            !.inserted = <<>>, !.resp = NoResp,
                            !.pre = device_commands]
       IN cfg' =
            IF Truthy(b.device_id)
            THEN IF WantsControl(b) THEN [c EXCEPT !.pc = "control"]
                 ELSE IF WantsWifi(b) THEN [c EXCEPT !.pc = "wifi"]
                 ELSE ConfigDone(c, Resp(200, TRUE, "Commands enqueued"))
            ELSE IF SettingsColumns(b) # {} THEN [c EXCEPT !.pc = "settings"]
                 ELSE ConfigDone(c, GlobalResponse(b))
    /\ UNCHANGED <<device_commands, system_settings, clock, dev, gpsVars, admVars>>

\* the INSERT of the control command is executed and the handler goes on
ControlInsert(o) ==
    /\ cfg.pc = "control"
    /\ device_commands' =
         IF o = "ok" THEN InsertCommand(device_commands, ControlCommand(cfg.req, cfg.now))
         ELSE device_commands
    /\ cfg' =
         CASE o = "throw" -> ConfigDone(cfg, Resp(500, FALSE, "Failed to update remote config"))
           [] o = "fail" -> ConfigDone(cfg, Resp(500, FALSE, "Failed to enqueue control command"))
           [] OTHER ->
                LET c == [cfg EXCEPT !.inserted = Append(@, "control")]
                IN IF WantsWifi(cfg.req) THEN [c EXCEPT !.pc = "wifi"]
                   ELSE ConfigDone(c, Resp(200, TRUE, "Commands enqueued"))
    /\ UNCHANGED <<system_settings, clock, dev, gpsVars, admVars>>

\* the INSERT of the wifi_update command is executed and the handler answers
WifiInsert(o) ==
    /\ cfg.pc = "wifi"
    /\ device_commands' =
         IF o = "ok" THEN InsertCommand(device_commands, WifiCommand(cfg.req, cfg.now))
         ELSE device_commands
    /\ cfg' =
         CASE o = "throw" -> ConfigDone(cfg, Resp(500, FALSE, "Failed to update remote config"))
           [] o = "fail" -> ConfigDone(cfg, Resp(500, FALSE, "Failed to enqueue wifi_update command"))
           [] OTHER ->
                ConfigDone([cfg EXCEPT !.inserted = Append(@, "wifi_update")],
                           Resp(200, TRUE, "Commands enqueued"))
    /\ UNCHANGED <<system_settings, clock, dev, gpsVars, admVars>>

\* the UPDATE of system_settings is executed and the handler answers
SettingsUpdate(o) ==
    /\ cfg.pc = "settings"
    /\ system_settings' =
         IF o = "ok" THEN UpdateSettings(system_settings, cfg.req) ELSE system_settings
    /\ cfg' =
         IF o = "ok" THEN ConfigDone(cfg, GlobalResponse(cfg.req))
         ELSE ConfigDone(cfg, Resp(200, TRUE,
                "Accepted but system settings update may not be persisted (check schema)"))
    /\ UNCHANGED <<device_commands, clock, dev, gpsVars, admVars>>

\* an hour passes
Tick ==
    /\ clock < MaxTime
    /\ clock' = clock + 1
    /\ UNCHANGED <<device_commands, system_settings, cfg, dev, gpsVars, admVars>>

(***************************************************************************)
(* Command dispatch: poll and acknowledge (the routes are not among the    *)
(* sources; they follow the protocol the sketch and the handler rely on),  *)
(* and the device sketch                                                   *)
(***************************************************************************)
\* the device_id the sketch polls for, and the one of another device
ThisDevice == Str(1)
OtherDevice == Str(2)

\* a command is expired at time t: now > expires_at
Expired(r, t) == t > r.expires_at

\* Poll that goes by the stored status alone
PollIgnoresExpiry(tbl, d, t) ==
    SelectSeq(tbl, LAMBDA r : r.device_id = d /\ r.status # "acknowledged")

\* the rows a poll of device d at time t selects: its commands that are
\* neither acknowledged nor expired
Poll(tbl, d, t) ==
    SelectSeq(tbl, LAMBDA r :
        r.device_id = d /\ r.status # "acknowledged" /\ ~Expired(r, t))

\* the JSON array the poll answers with: { id, command_type, payload }
PollResponse(rows) ==
    [i \in DOMAIN rows |->
        [id |-> rows[i].id, command_type |-> rows[i].command_type,
         payload |-> rows[i].payload]]

\* the result of acknowledge(id) at time t
AckResult(tbl, id, t) ==
    IF id \notin DOMAIN tbl THEN "not_found"
    ELSE IF tbl[id].status = "acknowledged" THEN "ok"
    ELSE IF Expired(tbl[id], t) THEN "not_found"
    ELSE "ok"

\* AcknowledgeRow that records every acknowledge, also a repeated one
AcknowledgeRowCounts(tbl, id, t) ==
    IF id \in DOMAIN tbl /\ ~Expired(tbl[id], t)
    THEN [tbl EXCEPT ![id].status =
            IF @ = "acknowledged" THEN "acknowledged twice" ELSE "acknowledged"]
    ELSE tbl

\* the table after acknowledge(id) at time t: a pending command that is not
\* expired becomes acknowledged, anything else stays as it is
AcknowledgeRow(tbl, id, t) ==
    IF id \in DOMAIN tbl /\ tbl[id].status # "acknowledged" /\ ~Expired(tbl[id], t)
    THEN [tbl EXCEPT ![id].status = "acknowledged"]
    ELSE tbl

\* what is remembered of an acknowledge request
AckRecord(tbl, id, t) ==
    [id |-> id,
     was |-> IF id \in DOMAIN tbl THEN tbl[id].status ELSE "none",
     result |-> AckResult(tbl, id, t),
     changed |-> AcknowledgeRow(tbl, id, t) # tbl]

\* payload[key] | false of the sketch: the member if it is a boolean
PayloadBool(payload, key) ==
    \E i \in DOMAIN payload : payload[i][1] = key /\ payload[i][2] = JsTrue

\* the sketch polls: loop() calls httpGet and hands the answer on
DevicePoll ==
    /\ dev.pc = "idle"
    /\ dev.polls < MaxPolls
    /\ LET rows == Poll(device_commands, ThisDevice, clock)
       IN dev' = [dev EXCEPT !.pc = "process", !.polls = @ + 1,
                             !.polledAt = clock, !.delivered = rows,
                             !.commands = PollResponse(rows)]
    /\ UNCHANGED <<device_commands, system_settings, clock, cfg, gpsVars, admVars>>

\* processCommands takes the next command of the array: a control command
\* drives the outputs, then the sketch posts the acknowledge of a control or
\* wifi_update command and waits in httpPostJson; a command of another type
\* is only logged
DeviceProcess ==
    /\ dev.pc = "process"
    /\ dev.commands # <<>>
    /\ LET cmd == Head(dev.commands)
           d1 == [dev EXCEPT !.commands = Tail(@), !.last = cmd.id]
       IN dev' =
            CASE cmd.command_type = "control" ->
                   [d1 EXCEPT !.sound = PayloadBool(cmd.payload, "soundEnabled"),
                              !.lights = PayloadBool(cmd.payload, "lightsEnabled"),
                              !.pc = "ack"]
              [] cmd.command_type = "wifi_update" -> [d1 EXCEPT !.pc = "ack"]
              [] OTHER -> d1
    /\ UNCHANGED <<device_commands, system_settings, clock, cfg, gpsVars, admVars>>

\* httpPostJson returns: the acknowledge of the command has reached the
\* server and was handled there (net = "ok"), or it was lost; the sketch
\* goes on with the array either way
DeviceAck(net) ==
    /\ dev.pc = "ack"
    /\ dev' = IF net = "ok"
              THEN [dev EXCEPT !.pc = "process",
                               !.ack = AckRecord(device_commands, dev.last, clock)]
              ELSE [dev EXCEPT !.pc = "process"]
    /\ device_commands' =
         IF net = "ok" THEN AcknowledgeRow(device_commands, dev.last, clock)
         ELSE device_commands
    /\ UNCHANGED <<system_settings, clock, cfg, gpsVars, admVars>>

\* the array is done; the sketch waits for its next poll
DeviceSleep ==
    /\ dev.pc = "process"
    /\ dev.commands = <<>>
    /\ dev' = [dev EXCEPT !.pc = "idle"]
    /\ UNCHANGED <<device_commands, system_settings, clock, cfg, gpsVars, admVars>>

\* an acknowledge request for command id arrives on its own: a repeated or
\* late request, or one for a command that does not exist
AckRequest(id) ==
    /\ dev' = [dev EXCEPT !.ack = AckRecord(device_commands, id, clock)]
    /\ device_commands' = AcknowledgeRow(device_commands, id, clock)
    /\ dev'.ack # dev.ack
    /\ UNCHANGED <<system_settings, clock, cfg, gpsVars, admVars>>

\* the wifi credentials and the other values an operator sends
Ssid == Str(77)
Password == Str(88)

\* the bodies sent to updateRemoteConfig
ConfigBodies ==
    { ConfigBody(ThisDevice, JsTrue, JsTrue, Undef, Undef, Undef, Undef),
      ConfigBody(ThisDevice, JsFalse, Undef, Ssid, Password, Undef, Num(2)),
      ConfigBody(ThisDevice, Undef, JsTrue, Undef, Undef, Num(3), Num(0)),
      ConfigBody(ThisDevice, Undef, Undef, Ssid, Undef, Undef, Undef),
      ConfigBody(ThisDevice, JsTrue, Undef, Ssid, Password, Undef, JsTrue),
      ConfigBody(ThisDevice, Undef, Undef, Undef, Undef, Num(3), Undef),
      ConfigBody(OtherDevice, Null, Undef, Undef, Password, Undef, Num(0)),
      ConfigBody(Undef, JsTrue, JsFalse, Undef, Undef, Num(3), Undef),
      ConfigBody(Undef, Undef, Undef, Ssid, Password, Undef, Undef),
      ConfigBody(Undef, Undef, JsTrue, Ssid, Password, Undef, Num(2)),
      ConfigBody(Undef, Undef, Undef, Undef, Undef, Undef, Undef) }

\* requests to updateRemoteConfig, as time passes
NextEnqueue ==
    \/ \E b \in ConfigBodies : ConfigArrive(b)
    \/ \E o \in {"ok", "fail", "throw"} : ControlInsert(o)
    \/ \E o \in {"ok", "fail", "throw"} : WifiInsert(o)
    \/ \E o \in {"ok", "fail", "throw"} : SettingsUpdate(o)
    \/ Tick

\* the device polls, processes and acknowledges the commands of the queue,
\* as time passes
NextCommands ==
    \/ Tick
    \/ DevicePoll
    \/ DeviceProcess
    \/ \E net \in {"ok", "lost"} : DeviceAck(net)
    \/ DeviceSleep
    \/ \E id \in 1..(Len(device_commands) + 1) : AckRequest(id)

\* the request an earlier run of the server may have served
SeedConfig == ConfigBody(ThisDevice, JsTrue, JsFalse, Undef, Undef, Undef, Undef)

\* the requests served after it: both kinds of command for the device with
\* a ttl of two hours, and a command for another device
SeedBoth == ConfigBody(ThisDevice, JsFalse, Undef, Ssid, Password, Undef, Num(2))
SeedOther == ConfigBody(OtherDevice, Null, Undef, Undef, Password, Undef, Num(0))

\* the queue after updateRemoteConfig served body b at time t and every
\* insert succeeded
Enqueued(tbl, b, t) ==
    LET withControl == IF WantsControl(b)
                       THEN InsertCommand(tbl, ControlCommand(b, t)) ELSE tbl
    IN IF WantsWifi(b) THEN InsertCommand(withControl, WifiCommand(b, t))
       ELSE withControl

\* the queues an earlier run of the server may have left
SeedQueues ==
    LET q1 == Enqueued(<<>>, SeedConfig, 0)
        q2 == Enqueued(q1, SeedBoth, 0)
        q3 == Enqueued(q2, SeedOther, 0)
    IN {<<>>, q1, q2, q3}

\* nothing has been ingested
GpsEmpty ==
    /\ animal_locations = <<>>
    /\ current_locations = <<>>
    /\ events = <<>>
    /\ now = 0
    /\ calls = 0
    /\ faults = 0
    /\ pc = [h \in Handlers |-> "idle"]
    /\ req = [h \in Handlers |-> NoBody]
    /\ params = [h \in Handlers |-> NoParams]
    /\ upsertParams = [h \in Handlers |-> NoParams]
    /\ hist = [h \in Handlers |-> "none"]
    /\ ups = [h \in Handlers |-> "none"]
    /\ emit = [h \in Handlers |-> "none"]
    /\ resp = [h \in Handlers |-> NoResp]
    /\ pre = [h \in Handlers |-> [al |-> <<>>, cl |-> <<>>, ev |-> <<>>]]
    /\ post = [h \in Handlers |-> <<>>]
    /\ prev = [h \in Handlers |-> NoPrev]
    /\ upserted = {}

\* the queue starts empty, or holding the commands that the seed requests
\* enqueued at time 0
InitCommands ==
    /\ GpsEmpty
    /\ device_commands \in SeedQueues
    /\ CommandsIdle
    /\ AdminIdle

SpecEnqueue == InitCommands /\ [][NextEnqueue]_vars

SpecCommands == InitCommands /\ [][NextCommands]_vars

(***************************************************************************)
(* Properties of command dispatch (SpecCommands)                           *)
(***************************************************************************)
\* the rows that the call of updateRemoteConfig in cfg has inserted so far
InsertedRows == {Len(cfg.pre) + k : k \in 1..Len(cfg.inserted)}

\* the ttl of the claim, in hours: expires_hours when the request supplies
\* it, otherwise 1 for a control command and 24 for a wifi_update
TtlHours(b, type) ==
    IF ~LooseNull(b.expires_hours) THEN Number(b.expires_hours)
    ELSE IF type = "control" THEN 1 ELSE 24

\* C15: every command enqueued by updateRemoteConfig for a device_id has
\* expires_at equal to the enqueue time plus the ttl, where the ttl is
\* expires_hours when supplied and otherwise 1 hour for a control command
\* and 24 hours for a wifi_update command; the command is created pending.
C15_ExpiresAtIsEnqueuePlusTtl ==
    \A i \in InsertedRows :
        /\ i \in DOMAIN device_commands
        /\ device_commands[i].expires_at
             = cfg.now + TtlHours(cfg.req, device_commands[i].command_type)
        /\ device_commands[i].status = "pending" \/ dev.ack.id = i

\* the call in cfg had a device_id and was answered with success
EnqueueSucceeded ==
    /\ cfg.pc = "done" /\ cfg.resp.success
    /\ Truthy(cfg.req.device_id)

\* the commands the claim expects of request b, in the order of the inserts
ExpectedCommands(b) ==
    (IF b.soundEnabled # Undef \/ b.lightsEnabled # Undef THEN <<"control">> ELSE <<>>)
    \o (IF Truthy(b.wifiSSID) \/ Truthy(b.wifiPassword) THEN <<"wifi_update">> ELSE <<>>)

\* a row without its status, the one column an acknowledge changes
WithoutStatus(r) == [r EXCEPT !.status = "pending"]

\* C16: a successful updateRemoteConfig request with device_id inserts
\* exactly one control command if soundEnabled or lightsEnabled is defined,
\* exactly one wifi_update command if wifiSSID or wifiPassword is given, both
\* when both kinds are present and none when neither is; the commands that
\* were in the queue are neither replaced nor removed.
C16_OneCommandPerKind ==
    EnqueueSucceeded
    => /\ Len(device_commands) = Len(cfg.pre) + Len(ExpectedCommands(cfg.req))
       /\ \A k \in DOMAIN ExpectedCommands(cfg.req) :
            /\ device_commands[Len(cfg.pre) + k].command_type
                 = ExpectedCommands(cfg.req)[k]
            /\ device_commands[Len(cfg.pre) + k].device_id = cfg.req.device_id
       /\ \A i \in DOMAIN cfg.pre :
            WithoutStatus(device_commands[i]) = WithoutStatus(cfg.pre[i])

\* a request with both kinds of field has added a control and a wifi_update
\* command to a queue that held a pending command of the same device, and
\* all three are pending
C16_Witness ==
    /\ EnqueueSucceeded
    /\ Len(cfg.pre) = 1 /\ Len(device_commands) = 3
    /\ \A i \in DOMAIN device_commands :
         /\ device_commands[i].status = "pending"
         /\ device_commands[i].device_id = ThisDevice

\* the wifi credentials that operators send
Credentials == {Ssid, Password}

\* the values of the members of a JSON text
MemberValues(payload) == {payload[i][2] : i \in DOMAIN payload}

\* C17: after any sequence of updateRemoteConfig requests, wifi SSID and
\* password values appear only in the payload of wifi_update rows of
\* device_commands for the named device_id; no request, with or without
\* device_id, writes a wifi credential into system_settings.
C17_CredentialsOnlyInWifiCommands ==
    /\ \A c \in DOMAIN system_settings : system_settings[c] \notin Credentials
    /\ \A i \in DOMAIN device_commands :
         LET r == device_commands[i]
         IN /\ {r.device_id, r.expires_at} \cap Credentials = {}
            /\ MemberValues(r.payload) \cap Credentials # {}
                 => r.command_type = "wifi_update"
    /\ \A i \in InsertedRows :
         i \in DOMAIN device_commands
         => /\ device_commands[i].device_id = cfg.req.device_id
            /\ MemberValues(device_commands[i].payload) \cap Credentials
                 \subseteq {cfg.req.wifiSSID, cfg.req.wifiPassword}

\* a request without device_id that carried wifi credentials has updated
\* system_settings and been refused
C17_Witness ==
    /\ cfg.pc = "done" /\ cfg.resp.status = 400
    /\ cfg.req.wifiSSID = Ssid /\ cfg.req.wifiPassword = Password
    /\ system_settings # NoSettings

\* no command that the last poll returned was expired when it was polled
PollReturnsLive ==
    \A i \in DOMAIN dev.delivered :
        /\ dev.delivered[i].device_id = ThisDevice
        /\ ~(dev.polledAt > dev.delivered[i].expires_at)

\* a step acknowledges no command whose expires_at is in the past, and the
\* passing of time alone changes nothing that is stored
ExpiryHonoured ==
    /\ \A i \in DOMAIN device_commands :
         device_commands'[i].status # device_commands[i].status
         => /\ device_commands'[i].status = "acknowledged"
            /\ ~(clock > device_commands[i].expires_at)
    /\ clock' # clock => device_commands' = device_commands

\* C18: a command whose expires_at is in the past is never returned by a
\* poll for its device, whatever its stored status, and is never
\* acknowledged after expires_at; expiry is decided at read time, with no
\* background sweep changing the stored command.
C18_ExpiredNeverDelivered == [] PollReturnsLive /\ [][ExpiryHonoured]_vars

\* a command of the device is expired and still stored as pending, and a
\* poll made after its expiry returned nothing
C18_Witness ==
    /\ dev.polls > 0 /\ dev.delivered = <<>>
    /\ \E i \in DOMAIN device_commands :
         /\ device_commands[i].device_id = ThisDevice
         /\ device_commands[i].status = "pending"
         /\ dev.polledAt > device_commands[i].expires_at

\* the last acknowledge request named a command that was acknowledged
\* already: it succeeded and changed nothing
SecondAckIsNoOp ==
    dev.ack.was = "acknowledged" => dev.ack.result = "ok" /\ ~dev.ack.changed

\* no command that the last poll returned was acknowledged when polled
PollReturnsUnacknowledged ==
    \A i \in DOMAIN dev.delivered : dev.delivered[i].status # "acknowledged"

\* an acknowledged command stays as it is
AcknowledgedIsTerminal ==
    \A i \in DOMAIN device_commands :
        device_commands[i].status = "acknowledged"
        => device_commands'[i] = device_commands[i]

\* C19: acknowledging a command is idempotent: a second acknowledge of the
\* same existing command succeeds without error and leaves the command as
\* it was after the first; acknowledged is terminal, and an acknowledged
\* command is never returned by a later poll.
C19_AcknowledgeIdempotent ==
    [] (SecondAckIsNoOp /\ PollReturnsUnacknowledged) /\ [][AcknowledgedIsTerminal]_vars

\* a live command of the device has been acknowledged a second time, and a
\* poll made after its first acknowledge did not return it
C19_Witness ==
    /\ dev.ack.was = "acknowledged" /\ dev.ack.id \in DOMAIN device_commands
    /\ device_commands[dev.ack.id].device_id = ThisDevice
    /\ dev.polls > 0
    /\ ~(dev.polledAt > device_commands[dev.ack.id].expires_at)
    /\ \A i \in DOMAIN dev.delivered : dev.delivered[i].id # dev.ack.id

\* C20: the control payload that the server enqueues and the payload the
\* polling device reads agree on their keys: when a control command was
\* enqueued with soundEnabled = s and lightsEnabled = l, the device that has
\* processed it has driven its sound output to s and its lights output to l.
C20_DeviceAppliesControl ==
    (dev.last \in DOMAIN device_commands
        /\ device_commands[dev.last].command_type = "control")
    => LET payload == device_commands[dev.last].payload
       IN \A i \in DOMAIN payload :
            /\ payload[i][1] = "sound" => dev.sound = (payload[i][2] = JsTrue)
            /\ payload[i][1] = "lights" => dev.lights = (payload[i][2] = JsTrue)

(***************************************************************************)
(* The last event of a key against the key's current record                *)
(***************************************************************************)
\* the calls of both handlers went through for one entity key: history
\* write, upsert and publish all succeeded
BothPublished ==
    /\ \A h \in Handlers :
         /\ Done(h) /\ hist[h] \in {"ok", "none"} /\ ups[h] = "ok" /\ emit[h] = "ok"
    /\ DuplicateKey(upsertParams[1], upsertParams[2])
    /\ DuplicateKey(upsertParams[2], upsertParams[1])

\* the 'location' event e and the record r agree on where and when
EventMatchesRecord(e, r) ==
    \A f \in {"latitude", "longitude", "recorded_at"} : r[f] = AsColumn(f, e[f])

\* C26: in every state with no call in flight, reached after calls for the
\* same entity key ran on both handlers and all succeeded, the last
\* 'location' event published for the key carries the coordinates and the
\* recorded_at of the key's current_locations record.
C26_LastEventMatchesCurrent ==
    (Quiescent /\ faults = 0 /\ BothPublished)
    => \E i \in RecordsOf(current_locations, upsertParams[1]) :
         EventMatchesRecord(events[Len(events)], current_locations[i])

(***************************************************************************)
(* updateAnimalLocation writes history only                                *)
(***************************************************************************)
\* this step is a step of updateAnimalLocation
LocationStep ==
    pc'[2] # pc[2] \/ req'[2] # req[2] \/ resp'[2] # resp[2]

\* the rows of tbl2 are those of tbl followed by exactly one row
OneRowAppended(tbl, tbl2) ==
    /\ Len(tbl2) = Len(tbl) + 1
    /\ \A i \in DOMAIN tbl : tbl2[i] = tbl[i]

\* what a step of updateAnimalLocation does to the datastore and the bus
LocationWritesHistoryOnly ==
    LocationStep
    => /\ current_locations' = current_locations
       /\ events' = events
       /\ IF resp'[2].status = 201 /\ pc[2] = "locationInsert"
          THEN /\ OneRowAppended(animal_locations, animal_locations')
               /\ animal_locations'[Len(animal_locations')].animal_id
                    = ToInt(req[2].id)
          ELSE animal_locations' = animal_locations
       /\ (pc[2] = "animalCheck" /\ pc'[2] = "done")
          => resp'[2].status \in {404, 500}

\* C27: updateAnimalLocation for an existing animal appends exactly one
\* animal_locations row, leaves current_locations unchanged and publishes no
\* event; when the animal is missing it answers 404 and writes nothing.
C27_LocationWritesHistoryOnly == [][LocationWritesHistoryOnly]_vars

\* updateAnimalLocation has saved a row for animal 7 that is newer than the
\* current_locations record of animal 7
C27_Witness ==
    /\ pc[2] = "done" /\ resp[2].status = 201
    /\ \E i \in DOMAIN current_locations :
         /\ current_locations[i].animal_id = ToInt(req[2].id)
         /\ animal_locations[Len(animal_locations)].animal_id = ToInt(req[2].id)
         /\ animal_locations[Len(animal_locations)].recorded_at
              > current_locations[i].recorded_at

(***************************************************************************)
(* A correction whose id matches no history row                            *)
(***************************************************************************)
\* the body names a history row to correct: update_id || id is truthy
IsCorrection(b) == Truthy(UpdateId(b))

\* no history row had the id that the call of h names when the call began
MatchesNoRow(h) ==
    \A i \in DOMAIN pre[h].al : pre[h].al[i].id # Number(UpdateId(req[h]))

\* C28: a correction never changes the number of animal_locations rows and
\* is never refused for missing coordinates; when its id matches no row and
\* the UPDATE succeeds it answers success: true, changes no history row,
\* upserts the current_locations record of the entity named in the request
\* and publishes a 'location' event for it.
C28_CorrectionOfNoRow ==
    (Done(1) /\ IsCorrection(req[1]))
    => /\ Len(animal_locations) = Len(pre[1].al)
       /\ resp[1].status # 400
       /\ hist[1] # "none"
       /\ (hist[1] = "ok" /\ MatchesNoRow(1))
          => /\ resp[1] = Resp(200, TRUE, "GPS record updated")
             /\ animal_locations = pre[1].al
             /\ ups[1] = "ok" => RecordHoldsCall(1)
             /\ ups[1] # "throw"
                => events = Append(pre[1].ev,
                                   LocationEvent(req[1], upsertParams[1]))

\* a correction of a row that does not exist went through on an empty
\* datastore: no history row, a current record and an event
C28_Witness ==
    /\ Done(1) /\ IsCorrection(req[1]) /\ MatchesNoRow(1)
    /\ hist[1] = "ok" /\ ups[1] = "ok" /\ emit[1] = "ok"
    /\ animal_locations = <<>>
    /\ pre[1].cl = <<>> /\ Len(current_locations) = 1
    /\ Len(events) = Len(pre[1].ev) + 1
    /\ resp[1].success

(***************************************************************************)
(* updateRemoteConfig answering success: false                             *)
(***************************************************************************)
\* the request has been answered with success: false
ConfigRefused(c) == c.pc = "done" /\ c.resp.status # 0 /\ ~c.resp.success

\* a refused request has inserted no command
RefusedInsertsNothing == ConfigRefused(cfg) => device_commands = cfg.pre

\* the step that refuses a request changes no column of system_settings
RefusalKeepsSettings ==
    (cfg' # cfg /\ ConfigRefused(cfg')) => system_settings' = system_settings

\* C29: whenever updateRemoteConfig answers success: false, the request has
\* inserted no row into device_commands and has modified no column of
\* system_settings.
C29_RefusalLeavesStateUnchanged ==
    [] RefusedInsertsNothing /\ [][RefusalKeepsSettings]_vars

(***************************************************************************)
(* JavaScript values of the dashboard and device requests: a value has a   *)
(* type t, and a number or a text s. A number is the decimal n * 10^-e,    *)
(* kept with the least e, so that equal numbers are equal records;         *)
(* texts are over Latin-1.                                                 *)
(***************************************************************************)
Absent == [t |-> "undefined", n |-> 0, e |-> 0, s |-> ""]
NullValue == [t |-> "null", n |-> 0, e |-> 0, s |-> ""]
NotANumber == [t |-> "NaN", n |-> 0, e |-> 0, s |-> ""]
BooleanValue(b) == [t |-> "boolean", n |-> IF b THEN 1 ELSE 0, e |-> 0, s |-> ""]
NumberValue(n) == [t |-> "number", n |-> n, e |-> 0, s |-> ""]
StringValue(s) == [t |-> "string", n |-> 0, e |-> 0, s |-> s]

\* Infinity (sign = 1) and -Infinity (sign = -1)
InfiniteValue(sign) == [t |-> "infinity", n |-> sign, e |-> 0, s |-> ""]

\* the number n * 10^-e
RECURSIVE Decimal(_, _)
Decimal(n, e) ==
    IF e > 0 /\ n % 10 = 0 THEN Decimal(n \div 10, e - 1)
    ELSE [t |-> "number", n |-> n, e |-> e, s |-> ""]

RECURSIVE Pow10(_)
Pow10(k) == IF k = 0 THEN 1 ELSE 10 * Pow10(k - 1)

\* truthiness: false of undefined, null, NaN, false, 0 and ''
TruthyValue(v) ==
    CASE v.t \in {"number", "boolean"} -> v.n # 0
      [] v.t = "string" -> v.s # ""
      [] v.t = "infinity" -> TRUE
      [] OTHER -> FALSE

\* the characters of the decimal digits, and the digit of a character
DigitChars == <<"0", "1", "2", "3", "4", "5", "6", "7", "8", "9">>
DigitOf(c) == CHOOSE d \in 0..9 : DigitChars[d + 1] = c
IsDigit(c) == \E d \in 0..9 : DigitChars[d + 1] = c

\* the decimal digits of a natural number
RECURSIVE DigitsOf(_)
DigitsOf(n) ==
    IF n < 10 THEN DigitChars[n + 1]
    ELSE DigitsOf(n \div 10) \o DigitChars[(n % 10) + 1]

\* a text of digits filled with zeros on the left to k characters
RECURSIVE PadZeros(_, _)
PadZeros(s, k) == IF Len(s) >= k THEN s ELSE PadZeros("0" \o s, k)

\* the text of a number, as String(v) and template literals spell it
\* it: positional digits, and below 10^-6 the digits of the number, the
\* point after the first of them, and the exponent
DecimalText(v) ==
    LET a == IF v.n < 0 THEN 0 - v.n ELSE v.n
        ds == DigitsOf(a)
    IN (IF v.n < 0 THEN "-" ELSE "")
       \o (IF a # 0 /\ Len(ds) - 1 - v.e < 0 - 6
           THEN Head(ds) \o (IF Len(ds) > 1 THEN "." \o Tail(ds) ELSE "")
                \o "e-" \o DigitsOf(v.e + 1 - Len(ds))
           ELSE DigitsOf(a \div Pow10(v.e))
                \o (IF v.e = 0 THEN ""
                    ELSE "." \o PadZeros(DigitsOf(a % Pow10(v.e)), v.e)))

\* String(v)
StringOf(v) ==
    CASE v.t = "string" -> v.s
      [] v.t = "number" -> DecimalText(v)
      [] v.t = "infinity" -> IF v.n > 0 THEN "Infinity" ELSE "-Infinity"
      [] v.t = "NaN" -> "NaN"
      [] v.t = "null" -> "null"
      [] v.t = "boolean" -> IF v.n = 1 THEN "true" ELSE "false"
      [] OTHER -> "undefined"

\* toLowerCase() of one character: the capital letters of Latin-1
LowerChar(c) ==
    LET upper == <<"A", "B", "C", "D", "E", "F", "G", "H", "I", "J", "K", "L", "M",
                   "N", "O", "P", "Q", "R", "S", "T", "U", "V", "W", "X", "Y", "Z",
                   "À", "Á", "Â", "Ã", "Ä", "Å", "Æ", "Ç", "È", "É", "Ê", "Ë", "Ì",
                   "Í", "Î", "Ï", "Ð", "Ñ", "Ò", "Ó", "Ô", "Õ", "Ö", "Ø", "Ù", "Ú",
                   "Û", "Ü", "Ý", "Þ">>
        lower == <<"a", "b", "c", "d", "e", "f", "g", "h", "i", "j", "k", "l", "m",
                   "n", "o", "p", "q", "r", "s", "t", "u", "v", "w", "x", "y", "z",
                   "à", "á", "â", "ã", "ä", "å", "æ", "ç", "è", "é", "ê", "ë", "ì",
                   "í", "î", "ï", "ð", "ñ", "ò", "ó", "ô", "õ", "ö", "ø", "ù", "ú",
                   "û", "ü", "ý", "þ">>
    IN IF \E i \in 1..56 : upper[i] = c
       THEN lower[CHOOSE i \in 1..56 : upper[i] = c]
       ELSE c

\* toLowerCase() that leaves the text as it is
ToLowerCaseNone(s) == s

\* toLowerCase()
RECURSIVE ToLowerCase(_)
ToLowerCase(s) ==
    IF s = "" THEN "" ELSE LowerChar(Head(s)) \o ToLowerCase(Tail(s))

\* the part of a text from position i to position j
Part(s, i, j) == IF i > j THEN "" ELSE SubSeq(s, i, j)
CharAt(s, i) == SubSeq(s, i, i)

\* white space that the conversion of a text to a number skips: space, tab,
\* line feed, carriage return, form feed, vertical tab, no-break space,
\* byte order mark and ogham space mark
WhiteSpace == {" ", "\t", "\n", "\r", "\f", "", " ", "﻿", " "}

RECURSIVE TrimLeft(_)
TrimLeft(s) ==
    IF s # "" /\ Head(s) \in WhiteSpace THEN TrimLeft(Tail(s)) ELSE s

RECURSIVE TrimRight(_)
TrimRight(s) ==
    IF s # "" /\ CharAt(s, Len(s)) \in WhiteSpace
    THEN TrimRight(Part(s, 1, Len(s) - 1)) ELSE s

\* the first position of a character of cs in s, 0 when there is none
IndexOf(s, cs) ==
    IF \E i \in 1..Len(s) : CharAt(s, i) \in cs
    THEN CHOOSE i \in 1..Len(s) :
            /\ CharAt(s, i) \in cs
            /\ \A j \in 1..(i - 1) : CharAt(s, j) \notin cs
    ELSE 0

AllDigits(s) == \A i \in 1..Len(s) : IsDigit(CharAt(s, i))

\* the number a text of decimal digits spells, 0 for the empty text
RECURSIVE DigitsValue(_)
DigitsValue(s) ==
    IF s = "" THEN 0
    ELSE 10 * DigitsValue(Part(s, 1, Len(s) - 1)) + DigitOf(CharAt(s, Len(s)))

\* the digits of the radixes 2, 8 and 16
RadixChars == <<"0", "1", "2", "3", "4", "5", "6", "7", "8", "9",
                "a", "b", "c", "d", "e", "f">>
IsRadixDigit(c, r) == \E d \in 0..(r - 1) : RadixChars[d + 1] = LowerChar(c)
RadixDigitOf(c) == CHOOSE d \in 0..15 : RadixChars[d + 1] = LowerChar(c)

RECURSIVE RadixValue(_, _)
RadixValue(s, r) ==
    IF s = "" THEN 0
    ELSE r * RadixValue(Part(s, 1, Len(s) - 1), r) + RadixDigitOf(CharAt(s, Len(s)))

\* the number m * 10^shift
Scale(m, shift) ==
    IF shift >= 0 THEN Decimal(m * Pow10(shift), 0) ELSE Decimal(m, 0 - shift)

\* the exponent part of a literal: absent, or an optional sign and digits
ExponentDigits(expText) ==
    IF expText # "" /\ Head(expText) \in {"+", "-"} THEN Tail(expText) ELSE expText
ExponentOk(expText, hasExp) ==
    ~hasExp \/ (ExponentDigits(expText) # "" /\ AllDigits(ExponentDigits(expText)))
ExponentValue(expText) ==
    IF expText # "" /\ Head(expText) = "-"
    THEN 0 - DigitsValue(ExponentDigits(expText))
    ELSE DigitsValue(ExponentDigits(expText))

\* the number of the integer digits ip, the fraction digits fp and the
\* exponent, NaN when a part is malformed or there is no digit
Compose(ip, fp, expText, hasExp) ==
    IF AllDigits(ip) /\ AllDigits(fp) /\ (ip # "" \/ fp # "")
       /\ ExponentOk(expText, hasExp)
    THEN Scale(DigitsValue(ip \o fp), ExponentValue(expText) - Len(fp))
    ELSE NotANumber

\* the mantissa is split at its decimal point, at position dot
Mantissa(mant, dot, expText, hasExp) ==
    IF dot = 0 THEN Compose(mant, "", expText, hasExp)
    ELSE Compose(Part(mant, 1, dot - 1), Part(mant, dot + 1, Len(mant)),
                 expText, hasExp)

\* the literal is split at its exponent mark, at position ePos
Scientific(u, ePos) ==
    IF ePos = 0 THEN Mantissa(u, IndexOf(u, {"."}), "", FALSE)
    ELSE Mantissa(Part(u, 1, ePos - 1), IndexOf(Part(u, 1, ePos - 1), {"."}),
                  Part(u, ePos + 1, Len(u)), TRUE)

\* an unsigned decimal literal: digits with an optional fraction and an
\* optional exponent, or Infinity; NaN when the text is no such literal
UnsignedDecimal(u) ==
    IF u = "Infinity" THEN InfiniteValue(1) ELSE Scientific(u, IndexOf(u, {"e", "E"}))

\* the radix that a literal announces: 16, 8 or 2, and 0 when it has none
RadixOf(prefix) ==
    CASE prefix = "0x" -> 16
      [] prefix = "0o" -> 8
      [] prefix = "0b" -> 2
      [] OTHER -> 0

\* the digits ds of a literal of radix r
RadixLiteral(ds, r) ==
    IF ds # "" /\ \A i \in 1..Len(ds) : IsRadixDigit(CharAt(ds, i), r)
    THEN NumberValue(RadixValue(ds, r)) ELSE NotANumber

\* the number x with the sign that a literal begins with
WithSign(sign, x) ==
    IF sign = "-" /\ x.t \in {"number", "infinity"} THEN [x EXCEPT !.n = 0 - x.n]
    ELSE x

\* the number a text without white space around it spells
Literal(u) ==
    CASE u = "" -> NumberValue(0)
      [] Len(u) >= 2 /\ RadixOf(ToLowerCase(Part(u, 1, 2))) # 0 ->
           RadixLiteral(Part(u, 3, Len(u)), RadixOf(ToLowerCase(Part(u, 1, 2))))
      [] Head(u) \in {"+", "-"} -> WithSign(Head(u), UnsignedDecimal(Tail(u)))
      [] OTHER -> UnsignedDecimal(u)

\* the number a text is converted to: 0 for a text of white space, the
\* value of a numeric literal between white space, otherwise NaN
ParseNumber(s) == Literal(TrimRight(TrimLeft(s)))

\* ToNumber of the operand of < and >
NumberOf(v) ==
    CASE v.t \in {"number", "infinity", "NaN"} -> v
      [] v.t = "string" -> ParseNumber(v.s)
      [] v.t = "boolean" -> NumberValue(v.n)
      [] v.t = "null" -> NumberValue(0)
      [] OTHER -> NotANumber

\* x < k and x > k for a converted operand x and an integer k: false of NaN
Below(x, k) ==
    CASE x.t = "number" -> x.n < k * Pow10(x.e)
      [] x.t = "infinity" -> x.n < 0
      [] OTHER -> FALSE
Above(x, k) ==
    CASE x.t = "number" -> x.n > k * Pow10(x.e)
      [] x.t = "infinity" -> x.n > 0
      [] OTHER -> FALSE

\* v < k and v > k
LessThan(v, k) == Below(NumberOf(v), k)
GreaterThan(v, k) == Above(NumberOf(v), k)

\* x || d
OrValue(x, d) == IF TruthyValue(x) THEN x ELSE d

(***************************************************************************)
(* Alerts: handleAlert of the device router, markAlertRead, resolveAlert   *)
(* and deleteAllAlerts of the dashboard. The model keeps the columns that  *)
(* the status transitions write. A handler runs from one await to the      *)
(* next in a step, so the statements of two requests interleave.           *)
(***************************************************************************)
\* req.user as authenticateToken leaves it
NoUser == [present |-> FALSE, id |-> 0, role |-> ""]
User(id, role) == [present |-> TRUE, id |-> id, role |-> role]

\* (req.user && req.user.id) ? req.user.id : null
ActorId(u) == IF u.present /\ u.id # 0 THEN u.id ELSE Null

\* payload.status ? String(payload.status) : 'active'
AlertStatus(payload) ==
    IF TruthyValue(payload.status) THEN StringOf(payload.status) ELSE "active"

\* the row that INSERT INTO alerts creates
AlertRow(id, payload) ==
    [id |-> id, status |-> AlertStatus(payload),
     acknowledged_at |-> Null, acknowledged_by |-> Null,
     resolved_at |-> Null, resolved_by |-> Null]

\* INSERT INTO alerts
InsertAlert(tbl, payload) ==
    [rows |-> Append(tbl.rows, AlertRow(tbl.auto_increment, payload)),
     auto_increment |-> tbl.auto_increment + 1]

\* SELECT ... FROM alerts WHERE id = ?
SelectAlert(tbl, id) == SelectSeq(tbl.rows, LAMBDA r : r.id = id)

\* UPDATE alerts SET status = 'acknowledged', acknowledged_at =
\* CURRENT_TIMESTAMP, acknowledged_by = ? WHERE id = ?
AcknowledgeAlert(tbl, id, by, t) ==
    [tbl EXCEPT !.rows =
        [i \in DOMAIN tbl.rows |->
            IF tbl.rows[i].id = id
            THEN [tbl.rows[i] EXCEPT !.status = "acknowledged",
                                     !.acknowledged_at = Date(t),
                                     !.acknowledged_by = by]
            ELSE tbl.rows[i]]]

\* UPDATE alerts SET status = 'resolved', resolved_at = CURRENT_TIMESTAMP,
\* resolved_by = ? WHERE id = ?
ResolveAlertRow(tbl, id, by, t) ==
    [tbl EXCEPT !.rows =
        [i \in DOMAIN tbl.rows |->
            IF tbl.rows[i].id = id
            THEN [tbl.rows[i] EXCEPT !.status = "resolved",
                                     !.resolved_at = Date(t),
                                     !.resolved_by = by]
            ELSE tbl.rows[i]]]

\* TRUNCATE TABLE alerts: no row is left and AUTO_INCREMENT starts again
TruncateAlerts(tbl) == NoAlerts

\* DELETE FROM alerts: no row is left, AUTO_INCREMENT goes on
DeleteAlerts(tbl) == [tbl EXCEPT !.rows = <<>>]

\* deleteAllAlerts that clears the table for any requester
MayClearAnyone(u, e) == TRUE

\* the requester may clear the table: isAdmin, or DEV_ALLOW_TRUNCATE is set
MayClear(u, e) ==
    (u.present /\ u.role = "admin") \/ e.DEV_ALLOW_TRUNCATE = "true"

\* process.env.SMTP_USER && process.env.SMTP_PASS &&
\* process.env.ALERT_EMAIL_TO
MailConfigured(e) == e.SMTP_USER # "" /\ e.SMTP_PASS # "" /\ e.ALERT_EMAIL_TO # ""

\* a request of a client begins to be served, and is answered
Serving(op, at, rq, u) ==
    [NoRequest EXCEPT !.op = op, !.pc = at, !.req = rq, !.user = u]
Answered(w, r) == [w EXCEPT !.pc = "done", !.resp = r]

\* the request is answered; its body and parameters are not kept
Closed(w, r) == Answered([w EXCEPT !.req = NoRequest.req], r)

\* client c has no request in flight
WebFree(c) == web[c].pc \in {"idle", "done"}

\* handleAlert maps the payload and runs to the await of its INSERT
AlertArrive(c, payload) ==
    /\ WebFree(c)
    /\ alerts.auto_increment <= MaxAlerts
    /\ web' = [web EXCEPT ![c] = Serving("handleAlert", "alertInsert", payload, NoUser)]
    /\ UNCHANGED <<alerts, device_controls, virtual_fences, env, posted,
                   gpsVars, cmdVars>>

\* the INSERT is executed: handleAlert answers 500, or answers 201, or,
\* with an SMTP account configured, runs to the await of sendEmail
AlertInsert(c, o) ==
    /\ web[c].pc = "alertInsert"
    /\ alerts' = IF o = "ok" THEN InsertAlert(alerts, web[c].req) ELSE alerts
    /\ web' = [web EXCEPT ![c] =
                CASE o = "ok" /\ MailConfigured(env) -> [@ EXCEPT !.pc = "alertMail", !.req = NoRequest.req]
                  [] o = "ok" -> Closed(@, Resp(201, TRUE, "Alert recorded"))
                  [] o = "fail" -> Closed(@, Resp(500, FALSE, "Failed to insert alert"))
                  [] OTHER -> Closed(@, Resp(500, FALSE, "Internal server error"))]
    /\ UNCHANGED <<device_controls, virtual_fences, env, posted, gpsVars, cmdVars>>

\* sendEmail settles, sent or failed (a failure is caught and logged), and
\* handleAlert answers 201
AlertMail(c, o) ==
    /\ web[c].pc = "alertMail"
    /\ o \in {"ok", "throw"}
    /\ web' = [web EXCEPT ![c] = Closed(@, Resp(201, TRUE, "Alert recorded"))]
    /\ UNCHANGED <<alerts, device_controls, virtual_fences, env, posted,
                   gpsVars, cmdVars>>

\* markAlertRead or resolveAlert runs to the await of its SELECT
AlertActionArrive(c, op, id, u) ==
    /\ WebFree(c)
    /\ op \in {"markAlertRead", "resolveAlert"}
    /\ web' = [web EXCEPT ![c] = Serving(op, "alertSelect", [id |-> id], u)]
    /\ UNCHANGED <<alerts, device_controls, virtual_fences, env, posted,
                   gpsVars, cmdVars>>

\* the SELECT returns: 404 when it failed or found no row, else the handler
\* runs to the await of its UPDATE
AlertSelect(c, o) ==
    /\ web[c].pc = "alertSelect"
    /\ web' = [web EXCEPT ![c] =
         CASE o = "throw" -> Closed(@, Resp(500, FALSE, "Internal server error"))
           [] o = "fail" \/ SelectAlert(alerts, @.req.id) = <<>> ->
                Closed(@, Resp(404, FALSE, "Alert not found"))
           [] OTHER -> [@ EXCEPT !.pc = "alertUpdate"]]
    /\ UNCHANGED <<alerts, device_controls, virtual_fences, env, posted,
                   gpsVars, cmdVars>>

\* the UPDATE of markAlertRead or of resolveAlert is executed and the
\* handler answers
AlertUpdate(c, o) ==
    /\ web[c].pc = "alertUpdate"
    /\ alerts' =
         IF o # "ok" THEN alerts
         ELSE IF web[c].op = "markAlertRead"
              THEN AcknowledgeAlert(alerts, web[c].req.id, ActorId(web[c].user), clock)
              ELSE ResolveAlertRow(alerts, web[c].req.id, ActorId(web[c].user), clock)
    /\ web' = [web EXCEPT ![c] = Closed(@,
                CASE o = "throw" -> Resp(500, FALSE, "Internal server error")
                  [] o = "fail" ->
                       Resp(500, FALSE, IF @.op = "markAlertRead"
                                        THEN "Failed to mark alert as read"
                                        ELSE "Failed to resolve alert")
                  [] OTHER ->
                       Resp(200, TRUE, IF @.op = "markAlertRead"
                                       THEN "Alert marked as read"
                                       ELSE "Alert resolved"))]
    /\ UNCHANGED <<device_controls, virtual_fences, env, posted, gpsVars, cmdVars>>

\* deleteAllAlerts answers 403, or runs to the await of its TRUNCATE
ClearArrive(c, u) ==
    /\ WebFree(c)
    /\ web' = [web EXCEPT ![c] =
                IF MayClear(u, env)
                THEN Serving("deleteAllAlerts", "truncate", [none |-> Null], u)
                ELSE Answered(Serving("deleteAllAlerts", "done", [none |-> Null], u),
                              Resp(403, FALSE, "Forbidden"))]
    /\ UNCHANGED <<alerts, device_controls, virtual_fences, env, posted,
                   gpsVars, cmdVars>>

\* TRUNCATE TABLE alerts is executed; when it fails the handler runs to the
\* await of its DELETE
ClearTruncate(c, o) ==
    /\ web[c].pc = "truncate"
    /\ alerts' = IF o = "ok" THEN TruncateAlerts(alerts) ELSE alerts
    /\ web' = [web EXCEPT ![c] =
         CASE o = "ok" -> Answered(@, Resp(200, TRUE, "All alerts cleared"))
           [] o = "fail" -> [@ EXCEPT !.pc = "delete"]
           [] OTHER -> Answered(@, Resp(500, FALSE, "Internal server error"))]
    /\ UNCHANGED <<device_controls, virtual_fences, env, posted, gpsVars, cmdVars>>

\* DELETE FROM alerts is executed and the handler answers
ClearDelete(c, o) ==
    /\ web[c].pc = "delete"
    /\ alerts' = IF o = "ok" THEN DeleteAlerts(alerts) ELSE alerts
    /\ web' = [web EXCEPT ![c] = Answered(@,
                CASE o = "ok" -> Resp(200, TRUE, "All alerts cleared")
                  [] o = "fail" -> Resp(500, FALSE, "Failed to clear alerts")
                  [] OTHER -> Resp(500, FALSE, "Internal server error"))]
    /\ UNCHANGED <<device_controls, virtual_fences, env, posted, gpsVars, cmdVars>>

\* the payloads that devices report: without a status, with an empty one
\* and with a text
AlertPayloads ==
    { [status |-> v] :
        v \in {Absent, StringValue(""), StringValue("dismissed"), Decimal(1, 7)} }

\* the users of the dashboard: an administrator, a viewer, and a request
\* without a user
Users == {NoUser, User(1, "admin"), User(2, "viewer")}

\* the user who acknowledges and resolves alerts
Operators == {User(1, "admin")}

\* the alert ids that requests name: those that are given out
AlertIds == 1..MaxAlerts

\* devices report alerts and the dashboard acknowledges, resolves and clears
NextAlerts ==
    \/ \E c \in Clients, p \in AlertPayloads : AlertArrive(c, p)
    \/ \E c \in Clients, o \in {"ok", "fail", "throw"} : AlertInsert(c, o)
    \/ \E c \in Clients, o \in {"ok", "throw"} : AlertMail(c, o)
    \/ \E c \in Clients, op \in {"markAlertRead", "resolveAlert"},
          id \in AlertIds, u \in Operators : AlertActionArrive(c, op, id, u)
    \/ \E c \in Clients, o \in {"ok", "fail", "throw"} : AlertSelect(c, o)
    \/ \E c \in Clients, o \in {"ok", "fail", "throw"} : AlertUpdate(c, o)
    \/ \E c \in Clients, u \in Users : ClearArrive(c, u)
    \/ \E c \in Clients, o \in {"ok", "fail", "throw"} : ClearTruncate(c, o)
    \/ \E c \in Clients, o \in {"ok", "fail", "throw"} : ClearDelete(c, o)

\* process.env with an SMTP account for the alert mails
MailEnv ==
    [NoEnv EXCEPT !.SMTP_USER = "farm@example.org", !.SMTP_PASS = "secret",
                  !.ALERT_EMAIL_TO = "owner@example.org"]

\* the server starts without the development switch and without an SMTP
\* account, or with both, on an empty alerts table
InitAlerts ==
    /\ GpsEmpty
    /\ device_commands = <<>>
    /\ CommandsIdle
    /\ alerts = NoAlerts
    /\ device_controls = <<>>
    /\ virtual_fences = NoFences
    /\ env \in {NoEnv, [MailEnv EXCEPT !.DEV_ALLOW_TRUNCATE = "true"]}
    /\ web = [c \in Clients |-> NoRequest]
    /\ posted = NonePosted

SpecAlerts == InitAlerts /\ [][NextAlerts]_vars

(***************************************************************************)
(* Claims on alerts                                                        *)
(***************************************************************************)
\* the position of a status in active -> acknowledged -> resolved
StatusRank(st) ==
    CASE st = "active" -> 1
      [] st = "acknowledged" -> 2
      [] st = "resolved" -> 3
      [] OTHER -> 0

\* the alerts that a step keeps: the rows that have their id before and after
KeptAlerts ==
    {i \in DOMAIN alerts.rows \cap DOMAIN alerts'.rows :
        alerts'.rows[i].id = alerts.rows[i].id}

StatusMovesForward ==
    \A i \in KeptAlerts :
        StatusRank(alerts.rows[i].status) > 0
        => StatusRank(alerts'.rows[i].status) >= StatusRank(alerts.rows[i].status)

\* C21: the status of an alert only moves forward along active ->
\* acknowledged -> resolved: a resolved alert never returns to acknowledged
\* or active, an acknowledged alert never returns to active.
C21_StatusMovesForward == [][StatusMovesForward]_vars

\* C22: in every reachable state the status of every stored alert is one of
\* active, acknowledged, resolved.
C22_StatusInLifecycle ==
    \A i \in DOMAIN alerts.rows :
        alerts.rows[i].status \in {"active", "acknowledged", "resolved"}

\* this step removes an alert
RemovesAlert ==
    \E i \in DOMAIN alerts.rows :
        \A j \in DOMAIN alerts'.rows : alerts'.rows[j].id # alerts.rows[i].id

IsAdmin(u) == u.present /\ u.role = "admin"

\* deleteAllAlerts has answered client c, whose user is not an administrator
AnsweredNonAdmin(c) ==
    web[c].pc = "done" /\ web[c].op = "deleteAllAlerts" /\ ~IsAdmin(web[c].user)

\* the client whose handler takes this step
Stepping(c) == web'[c] # web[c]

\* a step of the request of a requester who is not an administrator
\* leaves the table as it is, and a step that removes an alert is a step of
\* deleteAllAlerts for an administrator
OnlyAdminRemoves ==
    \A c \in Clients :
        Stepping(c)
        => /\ (web'[c].op = "deleteAllAlerts" /\ ~IsAdmin(web'[c].user))
              => alerts' = alerts
           /\ RemovesAlert
              => (web[c].op = "deleteAllAlerts" /\ IsAdmin(web[c].user))

\* C23 as stated: alerts are removed only by deleteAllAlerts, and only when
\* the requesting user has role admin; any other requester is answered 403
\* Forbidden and the alerts table is unchanged.
C23_OnlyAdminClears ==
    /\ [] (\A c \in Clients :
             AnsweredNonAdmin(c) => web[c].resp = Resp(403, FALSE, "Forbidden"))
    /\ [][OnlyAdminRemoves]_vars

\* the requester is neither an administrator nor served by a server that
\* runs with DEV_ALLOW_TRUNCATE=true
Unprivileged(u) == ~IsAdmin(u) /\ env.DEV_ALLOW_TRUNCATE # "true"

OnlyPrivilegedRemoves ==
    \A c \in Clients :
        Stepping(c)
        => /\ (web'[c].op = "deleteAllAlerts" /\ Unprivileged(web'[c].user))
              => alerts' = alerts
           /\ RemovesAlert
              => (web[c].op = "deleteAllAlerts" /\ ~Unprivileged(web[c].user))

\* C23, amended: alerts are removed only by deleteAllAlerts, and only when
\* the requesting user has role admin or the server runs with
\* DEV_ALLOW_TRUNCATE=true; otherwise the requester is answered 403
\* Forbidden and the alerts table is unchanged.
C23_OnlyPrivilegedClears ==
    /\ [] (\A c \in Clients :
             (AnsweredNonAdmin(c) /\ Unprivileged(web[c].user))
             => web[c].resp = Resp(403, FALSE, "Forbidden"))
    /\ [][OnlyPrivilegedRemoves]_vars

\* a viewer asked to clear a table that holds an alert, on a server without
\* the switch, and was refused
C23_Witness ==
    \E c \in Clients :
        /\ AnsweredNonAdmin(c) /\ Unprivileged(web[c].user)
        /\ web[c].user.present
        /\ web[c].resp.status = 403
        /\ alerts.rows # <<>>

(***************************************************************************)
(* The device control flag: GET and POST /device/control                   *)
(***************************************************************************)
\* req.body of a POST: absent, or an object with or without state
NoControlBody == [present |-> FALSE, state |-> Absent]
ControlBody(v) == [present |-> TRUE, state |-> v]

\* (req.body && req.body.state &&
\*  String(req.body.state).toLowerCase() === 'off') ? 'off' : 'on'
PostedState(b) ==
    IF b.present /\ TruthyValue(b.state)
       /\ ToLowerCase(StringOf(b.state)) = "off"
    THEN "off" ELSE "on"

\* INSERT INTO device_controls (control_key, control_value) VALUES
\* ('system_enabled', ?) ON DUPLICATE KEY UPDATE control_value = VALUES(...)
UpsertControl(tbl, state) ==
    IF \E i \in DOMAIN tbl : tbl[i].control_key = "system_enabled"
    THEN [i \in DOMAIN tbl |->
            IF tbl[i].control_key = "system_enabled"
            THEN [tbl[i] EXCEPT !.control_value = state] ELSE tbl[i]]
    ELSE Append(tbl, [control_key |-> "system_enabled", control_value |-> state])

\* SELECT control_value FROM device_controls WHERE control_key =
\* 'system_enabled' LIMIT 1
SelectControl(tbl) ==
    LET rows == SelectSeq(tbl, LAMBDA r : r.control_key = "system_enabled")
    IN IF rows = <<>> THEN <<>> ELSE <<rows[1]>>

\* the state GET answers with when the SELECT returned rows:
\* (String(val).toLowerCase() === 'off') ? 'off' : 'on', 'on' without a row
ReadState(rows) ==
    IF rows # <<>>
    THEN IF ToLowerCase(StringOf(StringValue(rows[1].control_value))) = "off"
         THEN "off" ELSE "on"
    ELSE "on"

\* a request to /device/control begins to be served
ServingControl(op, at, rq) ==
    [NoRequest EXCEPT !.op = op, !.pc = at, !.req = rq]

\* GET /device/control runs to the await of its SELECT
ControlGetArrive(c) ==
    /\ WebFree(c)
    /\ web' = [web EXCEPT ![c] =
                ServingControl("getControl", "controlSelect", [none |-> Null])]
    /\ UNCHANGED <<alerts, device_controls, virtual_fences, env, posted,
                   gpsVars, cmdVars>>

\* the SELECT returns and GET answers: the state of the row, 'on' when
\* there is no row or the SELECT did not succeed, 500 when it threw
ControlSelect(c, o) ==
    /\ web[c].pc = "controlSelect"
    /\ web' = [web EXCEPT ![c] =
         CASE o = "throw" ->
                Answered([@ EXCEPT !.read = o],
                         Resp(500, FALSE, "Internal server error"))
           [] o = "ok" ->
                Answered([@ EXCEPT !.read = o,
                                   !.state = ReadState(SelectControl(device_controls))],
                         Resp(200, TRUE, ""))
           [] OTHER ->
                Answered([@ EXCEPT !.read = o, !.state = "on"], Resp(200, TRUE, ""))]
    /\ UNCHANGED <<alerts, device_controls, virtual_fences, env, posted,
                   gpsVars, cmdVars>>

\* POST /device/control computes the state and runs to the await of its
\* CREATE TABLE IF NOT EXISTS
ControlPostArrive(c, b) ==
    /\ WebFree(c)
    /\ web' = [web EXCEPT ![c] =
                [ServingControl("postControl", "controlCreate", b)
                   EXCEPT !.state = PostedState(b)]]
    /\ UNCHANGED <<alerts, device_controls, virtual_fences, env, posted,
                   gpsVars, cmdVars>>

\* CREATE TABLE returns (its result is not looked at) or throws
ControlCreate(c, o) ==
    /\ web[c].pc = "controlCreate"
    /\ web' = [web EXCEPT ![c] =
                IF o = "throw"
                THEN Closed(@, Resp(500, FALSE, "Internal server error"))
                ELSE [@ EXCEPT !.pc = "controlUpsert"]]
    /\ UNCHANGED <<alerts, device_controls, virtual_fences, env, posted,
                   gpsVars, cmdVars>>

\* the upsert is executed and POST answers
ControlUpsert(c, o) ==
    /\ web[c].pc = "controlUpsert"
    /\ device_controls' =
         IF o = "ok" THEN UpsertControl(device_controls, web[c].state)
         ELSE device_controls
    /\ posted' = IF o = "ok" THEN web[c].req.state ELSE posted
    /\ web' = [web EXCEPT ![c] =
         CASE o = "ok" -> Closed(@, Resp(200, TRUE, ""))
           [] o = "fail" -> Closed(@, Resp(500, FALSE, "Failed to set control state"))
           [] OTHER -> Closed(@, Resp(500, FALSE, "Internal server error"))]
    /\ UNCHANGED <<alerts, virtual_fences, env, gpsVars, cmdVars>>

\* the bodies sent to POST /device/control
ControlBodies ==
    {NoControlBody}
    \cup { ControlBody(v) :
             v \in {Absent, NumberValue(0), NumberValue(1), StringValue(""),
                    StringValue("off"), StringValue("OFF"), StringValue("OfF"),
                    StringValue("on"), StringValue("ON"), StringValue("offline"),
                    StringValue(" off")} }

\* the flag is set and read
NextControl ==
    \/ \E c \in Clients : ControlGetArrive(c)
    \/ \E c \in Clients, o \in {"ok", "fail", "throw"} : ControlSelect(c, o)
    \/ \E c \in Clients, b \in ControlBodies : ControlPostArrive(c, b)
    \/ \E c \in Clients, o \in {"ok", "fail", "throw"} : ControlCreate(c, o)
    \/ \E c \in Clients, o \in {"ok", "fail", "throw"} : ControlUpsert(c, o)

\* the server starts with empty tables and no request in flight
InitControl ==
    /\ GpsEmpty
    /\ device_commands = <<>>
    /\ CommandsIdle
    /\ AdminIdle

SpecControl == InitControl /\ [][NextControl]_vars

\* the state a POST asked for is 'off', ignoring case
AsksOff(v) ==
    v.t = "string"
    /\ v.s \in {"off", "OFF", "Off", "oFF", "OfF", "ofF", "oFf", "OFf"}

\* what the last successful POST asked for, Absent before the first one
LastPosted == IF posted = NonePosted THEN Absent ELSE posted

\* GET answers client c with a state in this step
GetAnswers(c) ==
    /\ web[c].pc = "controlSelect" /\ web'[c].pc = "done"
    /\ web'[c].resp.success

\* every GET answers what the last successful POST asked for
ReadsLastPost ==
    \A c \in Clients :
        GetAnswers(c)
        => /\ web'[c].state \in {"on", "off"}
           /\ web'[c].state = "off" <=> AsksOff(LastPosted)

\* C24 as stated: the flag always reads as 'on' or 'off': GET returns 'off'
\* if and only if the last successful POST set a state equal to 'off'
\* ignoring case, and 'on' otherwise, also when no row was ever written.
C24_ReadsLastPost == [][ReadsLastPost]_vars

\* a GET whose SELECT succeeds answers what the last successful POST asked
\* for, any other GET answers 'on'
ReadsLastPostUnlessReadFails ==
    \A c \in Clients :
        GetAnswers(c)
        => /\ web'[c].state \in {"on", "off"}
           /\ web'[c].read = "ok"
              => (web'[c].state = "off" <=> AsksOff(LastPosted))
           /\ web'[c].read # "ok" => web'[c].state = "on"

\* C24, amended: a GET whose SELECT succeeds returns 'off' if and only if
\* the last successful POST set a state equal to 'off' ignoring case, and
\* 'on' otherwise, also when no row was ever written; a GET whose SELECT
\* does not succeed returns 'on' whatever was set.
C24_ReadsLastPostUnlessReadFails == [][ReadsLastPostUnlessReadFails]_vars

\* GET answered 'off' after a POST of 'OfF', while the POST of another
\* client waits for its upsert
C24_Witness ==
    \E c \in Clients :
        /\ web[c].pc = "done" /\ web[c].op = "getControl" /\ web[c].read = "ok"
        /\ posted = StringValue("OfF")
        /\ web[c].state = "off"
        /\ \E d \in Clients : web[d].pc = "controlUpsert"

(***************************************************************************)
(* Virtual fences: createVirtualFence, updateVirtualFence and              *)
(* deleteVirtualFence                                                      *)
(***************************************************************************)
\* req.body of a fence request
FenceBody(name, lat, lon, radius) ==
    [name |-> name, description |-> Absent, center_latitude |-> lat,
     center_longitude |-> lon, radius_meters |-> radius,
     fence_type |-> Absent, is_active |-> Absent]

\* !name || !center_latitude || !center_longitude || !radius_meters
FenceFieldMissing(b) ==
    \/ ~TruthyValue(b.name)
    \/ ~TruthyValue(b.center_latitude)
    \/ ~TruthyValue(b.center_longitude)
    \/ ~TruthyValue(b.radius_meters)

\* the range checks with the bounds themselves refused
FenceRangeErrorStrict(b) ==
    IF ~GreaterThan(b.center_latitude, 0 - 90) \/ ~LessThan(b.center_latitude, 90)
    THEN "Latitude must be between -90 and 90"
    ELSE IF ~GreaterThan(b.center_longitude, 0 - 180)
            \/ ~LessThan(b.center_longitude, 180)
    THEN "Longitude must be between -180 and 180"
    ELSE IF ~GreaterThan(b.radius_meters, 50) \/ ~LessThan(b.radius_meters, 10000)
    THEN "Radius must be between 50 and 10000 meters"
    ELSE ""

\* the message of the first range check that refuses the body, "" if none
FenceRangeError(b) ==
    IF LessThan(b.center_latitude, 0 - 90) \/ GreaterThan(b.center_latitude, 90)
    THEN "Latitude must be between -90 and 90"
    ELSE IF LessThan(b.center_longitude, 0 - 180)
            \/ GreaterThan(b.center_longitude, 180)
    THEN "Longitude must be between -180 and 180"
    ELSE IF LessThan(b.radius_meters, 50) \/ GreaterThan(b.radius_meters, 10000)
    THEN "Radius must be between 50 and 10000 meters"
    ELSE ""

\* the 400 message of the validation, "" when the body passes
FenceRefusal(b) ==
    IF FenceFieldMissing(b) THEN "Name, coordinates, and radius are required"
    ELSE FenceRangeError(b)

\* the columns that the INSERT and the UPDATE of a fence write
FenceColumns(b) ==
    [name |-> b.name,
     description |-> OrValue(b.description, NullValue),
     center_latitude |-> b.center_latitude,
     center_longitude |-> b.center_longitude,
     radius_meters |-> b.radius_meters,
     fence_type |-> OrValue(b.fence_type, StringValue("custom")),
     is_active |-> BooleanValue(b.is_active # BooleanValue(FALSE))]

\* INSERT INTO virtual_fences, with farmId = 1 and createdBy = 1
InsertFence(tbl, b) ==
    [rows |-> Append(tbl.rows,
                [c \in {"id", "farm_id", "created_by"} \cup DOMAIN FenceColumns(b) |->
                    CASE c = "id" -> NumberValue(tbl.auto_increment)
                      [] c \in {"farm_id", "created_by"} -> NumberValue(1)
                      [] OTHER -> FenceColumns(b)[c]]),
     auto_increment |-> tbl.auto_increment + 1]

\* UPDATE virtual_fences SET ... WHERE id = ? AND farm_id = ?
UpdateFence(tbl, id, b) ==
    [tbl EXCEPT !.rows =
        [i \in DOMAIN tbl.rows |->
            IF tbl.rows[i].id = NumberValue(id) /\ tbl.rows[i].farm_id = NumberValue(1)
            THEN [c \in DOMAIN tbl.rows[i] |->
                    IF c \in DOMAIN FenceColumns(b) THEN FenceColumns(b)[c]
                    ELSE tbl.rows[i][c]]
            ELSE tbl.rows[i]]]

\* SELECT id FROM virtual_fences WHERE id = ? AND farm_id = ?
SelectFence(tbl, id) ==
    SelectSeq(tbl.rows,
              LAMBDA r : r.id = NumberValue(id) /\ r.farm_id = NumberValue(1))

\* DELETE FROM virtual_fences WHERE id = ? AND farm_id = ?
DeleteFence(tbl, id) ==
    [tbl EXCEPT !.rows =
        SelectSeq(tbl.rows,
                  LAMBDA r : ~(r.id = NumberValue(id) /\ r.farm_id = NumberValue(1)))]

\* a fence request begins to be served
ServingFence(op, at, rq) == [NoRequest EXCEPT !.op = op, !.pc = at, !.req = rq]

\* createVirtualFence validates the body: 400, or it runs to the await of
\* its INSERT
FenceCreateArrive(c, b) ==
    /\ WebFree(c)
    /\ virtual_fences.auto_increment <= MaxFences
    /\ LET refusal == FenceRefusal(b)
       IN web' = [web EXCEPT ![c] =
                IF refusal # ""
                THEN Answered(ServingFence("createVirtualFence", "done", [body |-> b]),
                              Resp(400, FALSE, refusal))
                ELSE ServingFence("createVirtualFence", "fenceInsert", [body |-> b])]
    /\ UNCHANGED <<alerts, device_controls, virtual_fences, env, posted,
                   gpsVars, cmdVars>>

\* the INSERT is executed and createVirtualFence answers
FenceInsert(c, o) ==
    /\ web[c].pc = "fenceInsert"
    /\ virtual_fences' =
         IF o = "ok" THEN InsertFence(virtual_fences, web[c].req.body)
         ELSE virtual_fences
    /\ web' = [web EXCEPT ![c] = Answered(@,
                IF o = "ok" THEN Resp(201, TRUE, "Virtual fence created successfully")
                ELSE Resp(500, FALSE, "Internal server error"))]
    /\ UNCHANGED <<alerts, device_controls, env, posted, gpsVars, cmdVars>>

\* updateVirtualFence validates the body: 400, or it runs to the await of
\* its SELECT
FenceUpdateArrive(c, id, b) ==
    /\ WebFree(c)
    /\ LET refusal == FenceRefusal(b)
       IN web' = [web EXCEPT ![c] =
                IF refusal # ""
                THEN Answered(ServingFence("updateVirtualFence", "done",
                                           [id |-> id, body |-> b]),
                              Resp(400, FALSE, refusal))
                ELSE ServingFence("updateVirtualFence", "fenceCheck",
                                  [id |-> id, body |-> b])]
    /\ UNCHANGED <<alerts, device_controls, virtual_fences, env, posted,
                   gpsVars, cmdVars>>

\* deleteVirtualFence runs to the await of its SELECT
FenceDeleteArrive(c, id) ==
    /\ WebFree(c)
    /\ web' = [web EXCEPT ![c] =
                ServingFence("deleteVirtualFence", "fenceCheck", [id |-> id])]
    /\ UNCHANGED <<alerts, device_controls, virtual_fences, env, posted,
                   gpsVars, cmdVars>>

\* the SELECT of updateVirtualFence or deleteVirtualFence returns: 404 when
\* it failed or found no fence, else the handler runs to the await of its
\* UPDATE or DELETE
FenceCheck(c, o) ==
    /\ web[c].pc = "fenceCheck"
    /\ web' = [web EXCEPT ![c] =
         CASE o = "throw" -> Answered(@, Resp(500, FALSE, "Internal server error"))
           [] o = "fail" \/ SelectFence(virtual_fences, @.req.id) = <<>> ->
                Answered(@, Resp(404, FALSE, "Virtual fence not found"))
           [] OTHER -> [@ EXCEPT !.pc = IF web[c].op = "updateVirtualFence"
                                        THEN "fenceUpdate" ELSE "fenceDelete"]]
    /\ UNCHANGED <<alerts, device_controls, virtual_fences, env, posted,
                   gpsVars, cmdVars>>

\* the UPDATE is executed and updateVirtualFence answers
FenceUpdate(c, o) ==
    /\ web[c].pc = "fenceUpdate"
    /\ virtual_fences' =
         IF o = "ok" THEN UpdateFence(virtual_fences, web[c].req.id, web[c].req.body)
         ELSE virtual_fences
    /\ web' = [web EXCEPT ![c] = Answered(@,
                IF o = "ok" THEN Resp(200, TRUE, "Virtual fence updated successfully")
                ELSE Resp(500, FALSE, "Internal server error"))]
    /\ UNCHANGED <<alerts, device_controls, env, posted, gpsVars, cmdVars>>

\* the DELETE is executed and deleteVirtualFence answers
FenceDelete(c, o) ==
    /\ web[c].pc = "fenceDelete"
    /\ virtual_fences' =
         IF o = "ok" THEN DeleteFence(virtual_fences, web[c].req.id)
         ELSE virtual_fences
    /\ web' = [web EXCEPT ![c] = Answered(@,
                IF o = "ok" THEN Resp(200, TRUE, "Virtual fence deleted successfully")
                ELSE Resp(500, FALSE, "Internal server error"))]
    /\ UNCHANGED <<alerts, device_controls, env, posted, gpsVars, cmdVars>>

\* the values that requests carry for the three numbers and that the
\* handlers refuse: beyond each bound, zero, a fraction, texts of numbers,
\* an absent value and a boolean
Latitudes ==
    {NumberValue(n) : n \in {0 - 91, 0, 91}}
    \cup {Decimal(905, 1), Absent, StringValue("\f91 "), StringValue("-91")}
Longitudes ==
    {NumberValue(n) : n \in {0 - 181, 0, 181}} \cup {StringValue("1e3")}
Radii ==
    {NumberValue(n) : n \in {0, 49, 10001}}
    \cup {Decimal(495, 1), BooleanValue(TRUE)}

\* the fence every field of which is valid
ValidFence ==
    FenceBody(StringValue("north"), NumberValue(45), NumberValue(10), NumberValue(500))

\* the bodies of the requests of the first client: the valid fence, the
\* valid fence with one value varied, and the fences on and beyond the
\* bounds
FenceBodies ==
    { [ValidFence EXCEPT !.center_latitude = lat] : lat \in Latitudes }
    \cup { [ValidFence EXCEPT !.center_longitude = lon] : lon \in Longitudes }
    \cup { [ValidFence EXCEPT !.radius_meters = r] : r \in Radii }
    \cup { ValidFence,
           [ValidFence EXCEPT !.name = StringValue("")],
           FenceBody(StringValue("north"), NumberValue(0 - 90), NumberValue(0 - 180),
                     NumberValue(50)),
           FenceBody(StringValue("north"), NumberValue(90), NumberValue(180),
                     NumberValue(10000)),
           FenceBody(StringValue("north"), NumberValue(91), NumberValue(181),
                     NumberValue(10001)) }

\* the bodies that a client sends: the second client, whose requests
\* overlap with those of the first, deletes fences and sends no body
BodiesOf(c) == IF c = 1 THEN FenceBodies ELSE {}

\* the fence ids that requests name: those that are given out
FenceIds == 1..MaxFences

\* fences are created, updated and deleted
NextFences ==
    \/ \E c \in Clients : \E b \in BodiesOf(c) : FenceCreateArrive(c, b)
    \/ \E c \in Clients, o \in {"ok", "fail", "throw"} : FenceInsert(c, o)
    \/ \E c \in Clients, id \in FenceIds : \E b \in BodiesOf(c) :
         FenceUpdateArrive(c, id, b)
    \/ \E c \in Clients, id \in FenceIds : FenceDeleteArrive(c, id)
    \/ \E c \in Clients, o \in {"ok", "fail", "throw"} : FenceCheck(c, o)
    \/ \E c \in Clients, o \in {"ok", "fail", "throw"} : FenceUpdate(c, o)
    \/ \E c \in Clients, o \in {"ok", "fail", "throw"} : FenceDelete(c, o)

SpecFences == InitControl /\ [][NextFences]_vars

(***************************************************************************)
(* Claims on the validation of fences                                      *)
(***************************************************************************)
\* the value converts to a number outside [lo, hi]
Outside(v, lo, hi) == LessThan(v, lo) \/ GreaterThan(v, hi)

\* the value is a number in [lo, hi]
Within(v, lo, hi) ==
    v.t = "number" /\ v.n >= lo * Pow10(v.e) /\ v.n <= hi * Pow10(v.e)

\* a value of the body is outside its interval
OutOfRange(b) ==
    \/ Outside(b.center_latitude, 0 - 90, 90)
    \/ Outside(b.center_longitude, 0 - 180, 180)
    \/ Outside(b.radius_meters, 50, 10000)

\* createVirtualFence has answered the request of client c
CreateAnswered(c) == web[c].pc = "done" /\ web[c].op = "createVirtualFence"

\* every request of createVirtualFence with a value outside its interval is
\* answered 400, and none is answered with the range message of a value
\* that is inside its interval
RangeAnswers ==
    \A c \in Clients :
        CreateAnswered(c)
        => LET b == web[c].req.body
           IN /\ OutOfRange(b) => web[c].resp.status = 400
              /\ Within(b.center_latitude, 0 - 90, 90)
                 => web[c].resp.message # "Latitude must be between -90 and 90"
              /\ Within(b.center_longitude, 0 - 180, 180)
                 => web[c].resp.message # "Longitude must be between -180 and 180"
              /\ Within(b.radius_meters, 50, 10000)
                 => web[c].resp.message # "Radius must be between 50 and 10000 meters"

\* no step of a request of createVirtualFence with a value outside its
\* interval changes the table
RefusedInsertsNoFence ==
    \A c \in Clients :
        (Stepping(c) /\ web'[c].op = "createVirtualFence"
            /\ OutOfRange(web'[c].req.body))
        => virtual_fences' = virtual_fences

\* C25: createVirtualFence rejects with 400 and inserts no fence when
\* center_latitude is outside [-90, 90], center_longitude outside
\* [-180, 180] or radius_meters outside [50, 10000], and does not reject on
\* range grounds the boundary values -90, 90, -180, 180, 50 and 10000.
C25_RangeValidation == [] RangeAnswers /\ [][RefusedInsertsNoFence]_vars

\* the fence on the upper bounds 90, 180 and 10000 has been created
C25_Witness ==
    \E c \in Clients :
        /\ CreateAnswered(c) /\ web[c].resp.status = 201
        /\ web[c].req.body.center_latitude = NumberValue(90)
        /\ web[c].req.body.center_longitude = NumberValue(180)
        /\ web[c].req.body.radius_meters = NumberValue(10000)
        /\ \E i \in DOMAIN virtual_fences.rows :
             virtual_fences.rows[i].center_latitude = NumberValue(90)

\* C30: createVirtualFence and updateVirtualFence accept every request
\* whose name is non-empty and whose numeric center_latitude is in
\* [-90, 90], center_longitude in [-180, 180] and radius_meters in
\* [50, 10000], a latitude or longitude of exactly 0 included.
C30_InRangeAccepted ==
    \A c \in Clients :
        (/\ web[c].pc = "done"
         /\ web[c].op \in {"createVirtualFence", "updateVirtualFence"}
         /\ web[c].req.body.name.t = "string" /\ web[c].req.body.name.s # ""
         /\ Within(web[c].req.body.center_latitude, 0 - 90, 90)
         /\ Within(web[c].req.body.center_longitude, 0 - 180, 180)
         /\ Within(web[c].req.body.radius_meters, 50, 10000))
        => web[c].resp.status # 400

====
